---- MODULE Spec2Model ----
(***************************************************************************)
(* Model of the OrbisCast streaming session manager                        *)
(* (src/src/modules/iptv/downloaders.ts, lines 85-364: the streaming       *)
(* module) together with the collaborators it talks to: the media          *)
(* pipeline (prepareStream / the ffmpeg command), the transport            *)
(* (playStream), the voice connection and the spectator timer.             *)
(*                                                                         *)
(* Every async function is cut at its awaits.  An await of the 1000 ms     *)
(* grace timer of stopStreaming puts the caller into stopQ; timers of the  *)
(* same delay fire in the order in which they were armed, so stopQ is a    *)
(* FIFO.  What runs after the timer (the rest of stopStreaming and then    *)
(* the code of the caller behind its "await stopStreaming()") runs in the  *)
(* microtasks of that timer: cont holds the caller that is resumed, and    *)
(* nothing else runs while cont is set.                                    *)
(***************************************************************************)
EXTENDS Integers, Sequences, FiniteSets, TLC

\* ----------------------------------------------------------------- bounds
MaxStarts == 1            \* calls of startStreaming that pass the ready guard
MaxCmds == 1              \* calls of stopStreaming / leaveVoiceChannel by the command layer
MaxViewers == 1           \* non-bot members besides the streaming account
MaxBots == 1              \* bot members in the voice channel

\* ------------------------------------------------- configuration, constants
DEFAULT_STREAM_TIMEOUT == 1   \* config.DEFAULT_STREAM_TIMEOUT, minutes (DEFAULT_STREAM_TIMEOUT=1)
PollSeconds == 10         \* setInterval(..., 10000); streamAloneTime += 10
SecondsPerMinute == 60    \* config.DEFAULT_STREAM_TIMEOUT * 60

Channels == {"A", "B"}
NoChannel == "null"
VoiceChannels == {"vc"}
NoVoice == "none"
NoTimer == "null"
TheTimer == "interval"
None == [k |-> "idle"]
ExitKinds == {"end", "error", "error255"}
\* callers with nothing left to do behind "await stopStreaming()": the
\* command layer ("stop"); the handlers of a command and the catch block of
\* startStreaming ("none")
NoCont == {"stop", "none"}

\* the refresh scheduler
MaxSchedules == 2             \* calls of scheduleIPTVRefresh
NoInterval == 0               \* refreshIntervalId = null
Sources == {"xmltv", "playlist"}
NoOp == [op |-> "none", forced |-> FALSE, fetched |-> {}, failed |-> {}, cached |-> {},
         guide |-> <<>>, playlist |-> <<>>,
         channelsThen |-> <<>>, programmesThen |-> <<>>]

MaxTicks == 2                 \* firings of the refresh interval

\* the guide parser
NoDate == [ts |-> <<>>, off |-> <<>>]
NotParsed == [kind |-> "none", time |-> 0]
NoDoc == [channel |-> <<>>, programme |-> <<>>]
NoOutput == [channels |-> <<>>, programmes |-> <<>>]

\* the playlist parser
NoLine == [head |-> "", attrs |-> <<>>, comma |-> FALSE, title |-> ""]

\* the record store
NoReplace == [pc |-> "idle", table |-> "", old |-> <<>>, new |-> <<>>]
NoReader == [pc |-> "idle", table |-> ""]
NoRead == [table |-> "", rows |-> <<>>, during |-> FALSE, old |-> <<>>, new |-> <<>>]

\* the command layer
NoCall == [pc |-> "idle", name |-> "", vc |-> ""]
NoResult == [of |-> "none", outcome |-> "resolved", success |-> FALSE,
             message |-> "", channel |-> ""]

\* syncPlaylistChannels
MaxPlaylist == 2              \* entries of a playlist
GuideIds == {"c1", "playlist_0"}   \* channel ids of the guide

\* isProgrammeDataStale; times are in minutes
MaxProgs == 2                 \* programme records in the database
MaxClock == 3                 \* latest time of a check
REFRESH_IPTV == 5             \* config.REFRESH_IPTV, minutes (REFRESH_IPTV=5)
GraceMinutes == 3             \* 3 * 60 * 1000 ms
NoStop == -1                  \* stands for a stop_timestamp that is no number

\* fetchWithRetry
maxRetries == 3
InitialRetryDelay == 5
NoBlob == "null"
NetBlob == "downloaded"       \* Buffer.from(response.data)
OldBlob == "cached"           \* a file cached by an earlier download
\* what one axios.get can end in: data, no data, a cancelled request
\* (timeout), ECONNABORTED or status >= 500, any other error
Outcomes == {"data", "empty", "timeout", "connection", "other"}

VARIABLES
    ready,                    \* streamer.client.isReady()
    voice,                    \* streamer.voiceConnection?.channelId
    abortController,          \* the module's current AbortController (an id)
    aborted,                  \* controllers on which abort() was called
    currentChannelEntry,
    streamSpectatorMonitor,   \* handle of the interval timer, NoTimer when null
    timers,                   \* interval timers that are armed
    streamAloneTime,
    pipes,                    \* the ffmpeg commands and playStream calls not yet finished,
                              \* keyed by the controller whose signal they were given
    stopQ,                    \* callers inside the grace wait of stopStreaming
    cont,                     \* caller resumed by the stopStreaming that returned
    mustFire,                 \* grace timers that expire before the next poll
    nStartCalls, nCmds,       \* calls made so far
    sessionPipe,              \* history: the pipeline built together with currentChannelEntry (a set)
    fired,                    \* history: idle timeouts raised by the armed monitor
    ev                        \* history: what the last step was

\* the download of one source: fetchWithRetry(url, cacheFileName) and the
\* cache file of that name
VARIABLES
    fetchPc,                  \* where the call of fetchWithRetry stands
    attempt,                  \* the loop variable of fetchWithRetry
    retryDelay,               \* seconds
    cacheBlob,                \* content of the cache file, NoBlob when there is none
    fetchResult,              \* what fetchWithRetry returned
    trail                     \* history: attempts, their outcomes and the waits

fetchVars == <<fetchPc, attempt, retryDelay, cacheBlob, fetchResult, trail>>

\* the programme records of the database and the clock
VARIABLES
    programmes,               \* programmesDb.data.programmes
    now,                      \* Date.now(), in minutes
    stale                     \* what isProgrammeDataStale returned

staleVars == <<programmes, now, stale>>

\* the channel records of the database and the last playlist merged into them
VARIABLES
    channels,                 \* channelsDb.data.channels
    channelsBefore,           \* the merge alone: the channel records it began with
    playlistChannels          \* the merge alone: the parsed playlist entries

mergeVars == <<channels, channelsBefore, playlistChannels>>

\* the refresh of the two sources and its scheduler
VARIABLES
    sources,                  \* the sources with a configured url
    cacheFiles,               \* the cache directory: xmltv.xml, playlist.m3u
    refreshIntervalId,        \* schedulers.ts: refreshIntervalId
    intervals,                \* the interval timers that are armed
    nSchedules,               \* setInterval calls so far
    opLog                     \* the last refresh operation and what it met

refreshVars == <<sources, cacheFiles, refreshIntervalId, intervals, nSchedules, opLog>>

\* the callbacks of the refresh interval that are in progress
VARIABLES
    running,                  \* for each callback in progress, the await it stands at
    nTicks,                   \* callbacks begun so far
    tickLog                   \* history: how the callback that ended last ended

tickVars == <<running, nTicks, tickLog>>

\* the command layer: executeStreamChannel and executeRefresh
VARIABLES
    exec,                     \* the call of executeStreamChannel in progress
    result                    \* what the last call of either function settled to

execVars == <<exec>>
resultVars == <<result>>

\* the replacement of a stored record set and a concurrent reader
VARIABLES
    replace,                  \* clearX() / addX() of a refresh in progress
    reader,                   \* getChannelEntries / getProgrammeEntries in progress
    lastRead                  \* what the last read returned, and when

dbVars == <<replace, reader, lastRead>>

\* the loop over the playlist lines, index.ts lines 164-180
VARIABLES
    line,                     \* the line of the playlist being read
    currentChannel,           \* <<>> is null
    extracted,                \* the record the loop pushed for the line
    parsePc

parseVars == <<line, currentChannel, extracted, parsePc>>

\* the guide parser: extractXMLTVData and parseDate
VARIABLES
    dateString,               \* the argument of parseDate
    parsed,                   \* what parseDate returned or that it threw
    doc,                      \* xmlData.tv: the channel and programme nodes
    output,                   \* ParsedXMLTV
    guidePc

guideVars == <<dateString, parsed, doc, output, guidePc>>

\* what the session manager does not touch
elsewhere == <<fetchVars, staleVars, mergeVars, refreshVars, tickVars, execVars, dbVars, parseVars, guideVars, resultVars>>

vars == <<ready, voice, abortController, aborted,
          currentChannelEntry, streamSpectatorMonitor, timers,
          streamAloneTime, pipes, stopQ, cont, mustFire,
          nStartCalls, nCmds, sessionPipe, fired, ev>>

\* ---------------------------------------------------------------- helpers
Threshold == DEFAULT_STREAM_TIMEOUT * SecondsPerMinute

PipeIds == DOMAIN pipes

\* a pipeline is live while its ffmpeg process runs and its cancellation
\* signal has not been raised
LivePipes == {p \in PipeIds : pipes[p].running /\ p \notin aborted}

\* new AbortController(): an object distinct from every controller still referenced
Referenced ==
    PipeIds \cup {abortController} \cup UNION {stopQ[i].sess : i \in 1..Len(stopQ)}

FreshCtl ==
    CHOOSE c \in 1..(Cardinality(Referenced) + 1) :
        /\ c \notin Referenced
        /\ \A d \in 1..(Cardinality(Referenced) + 1) : d \notin Referenced => c <= d

\* mutant: the bots are counted as spectators
MembersCountingBots(v, b) == (1 + v + b) - 1

\* mutant: one viewer too many is subtracted
MembersOffByOne(v, b) == (1 + v) - 2

\* channel.members.filter(member => !member.user.bot).size - 1
\* the channel holds the streaming account (a user account), v other users and b bots
Members(v, b) ==
    LET members == {<<"self", 1>>} \cup {<<"user", i>> : i \in 1..v}
                       \cup {<<"bot", i>> : i \in 1..b}
    IN  Cardinality({m \in members : m[1] # "bot"}) - 1

\* a caller that enters the grace wait.  sess remembers the pipeline of the
\* session it was called on; cur the channel that was current, for the
\* requests of the command layer and of the monitor
Entry(k, ch) ==
    [k |-> k, ch |-> ch,
     cur |-> IF k = "none" THEN NoChannel ELSE currentChannelEntry,
     sess |-> sessionPipe \cap LivePipes]

Max(a, b) == IF a >= b THEN a ELSE b

\* clearInterval(streamSpectatorMonitor); streamSpectatorMonitor = null
ClearedTimers == timers \ {streamSpectatorMonitor}

\* a pipeline whose process has exited and whose playStream has settled is
\* referenced by nothing any more
Finished(r) == ~r.running /\ ~r.playing

Collect(ps) == [p \in {q \in DOMAIN ps : ~Finished(ps[q])} |-> ps[p]]

\* ------------------------------------------------------------------ Init
\* no download has been started
FetchNotCalled ==
    /\ fetchPc = "idle"
    /\ attempt = 0
    /\ retryDelay = 0
    /\ cacheBlob = NoBlob
    /\ fetchResult = "pending"
    /\ trail = <<>>

\* the streaming module as loaded
SessionNotStarted ==
    /\ ready = FALSE
    /\ voice = NoVoice
    /\ abortController = 1
    /\ aborted = {}
    /\ currentChannelEntry = NoChannel
    /\ streamSpectatorMonitor = NoTimer
    /\ timers = {}
    /\ streamAloneTime = 0
    /\ pipes = <<>>
    /\ stopQ = <<>>
    /\ cont = None
    /\ mustFire = 0
    /\ nStartCalls = 0
    /\ nCmds = 0
    /\ sessionPipe = {}
    /\ fired = 0
    /\ ev = <<"init", 0>>

\* an empty database
NoProgrammes ==
    /\ programmes = <<>>
    /\ now = 0
    /\ stale = "unknown"

\* no channel records, no playlist read
NoChannels ==
    /\ channels = <<>>
    /\ channelsBefore = <<>>
    /\ playlistChannels = <<>>

\* nothing configured, nothing cached, no scheduler
RefreshNotStarted ==
    /\ sources = {}
    /\ cacheFiles = [xmltv |-> <<>>, playlist |-> <<>>]
    /\ refreshIntervalId = NoInterval
    /\ intervals = {}
    /\ nSchedules = 0
    /\ opLog = NoOp

\* the interval has not fired yet
TicksNotStarted ==
    /\ running = <<>>
    /\ nTicks = 0
    /\ tickLog = <<"none", 0>>

\* no command has been given
NoCommand ==
    /\ exec = NoCall
    /\ result = NoResult

\* no guide is being parsed
NoGuide ==
    /\ dateString = NoDate
    /\ parsed = NotParsed
    /\ doc = NoDoc
    /\ output = NoOutput
    /\ guidePc = "idle"

\* no playlist line is being read
NothingParsed ==
    /\ line = NoLine
    /\ currentChannel = <<>>
    /\ extracted = <<>>
    /\ parsePc = "idle"

\* no replacement and no read in progress
NoReplacement ==
    /\ replace = NoReplace
    /\ reader = NoReader
    /\ lastRead = NoRead

SessionInit ==
    /\ SessionNotStarted
    /\ FetchNotCalled
    /\ NoProgrammes
    /\ NoChannels
    /\ RefreshNotStarted
    /\ NoCommand
    /\ NoReplacement
    /\ NothingParsed
    /\ NoGuide
    /\ TicksNotStarted

\* --------------------------------------------------------------- actions
\* mutant: the grace wait without abortController.abort()
StopStreamingCallNoAbort(e) ==
    IF ~ready
    THEN UNCHANGED <<aborted, stopQ>>
    ELSE /\ UNCHANGED aborted
         /\ stopQ' = Append(stopQ, e)

\* stopStreaming() up to its await, lines 336-344: the ready guard, abort(),
\* arming the grace timer.  e is the caller that waits for the return.
StopStreamingCall(e) ==
    IF ~ready
    THEN UNCHANGED <<aborted, stopQ>>
    ELSE /\ aborted' = aborted \cup {abortController}
         /\ stopQ' = Append(stopQ, e)

\* initializeStreamer / loginStreamer
Login ==
    /\ cont = None
    /\ ~ready
    /\ ready' = TRUE
    /\ ev' = <<"login", 0>>
    /\ UNCHANGED <<voice, abortController, aborted,
                   currentChannelEntry, streamSpectatorMonitor, timers,
                   streamAloneTime, pipes, stopQ, cont, mustFire,
                   nStartCalls, nCmds, sessionPipe, fired>>
    /\ UNCHANGED elsewhere

\* joinVoiceChannel(guildId, channelId)
JoinVoice(vc) ==
    /\ cont = None
    /\ ready
    /\ voice # vc
    /\ voice' = vc
    /\ ev' = <<"join", 0>>
    /\ UNCHANGED <<ready, abortController, aborted,
                   currentChannelEntry, streamSpectatorMonitor, timers,
                   streamAloneTime, pipes, stopQ, cont, mustFire,
                   nStartCalls, nCmds, sessionPipe, fired>>
    /\ UNCHANGED elsewhere

\* startStreaming(channelEntry), lines 270-278: the ready guard and the
\* call of stopStreaming; at most n calls.  The channel entries are
\* interchangeable: the first one that is streamed is called "A".
StartCallUpTo(ch, n) ==
    /\ cont = None
    /\ nStartCalls < n
    /\ nStartCalls = 0 => ch = "A"
    /\ IF ~ready
       THEN UNCHANGED <<aborted, stopQ, nStartCalls>>
       ELSE /\ StopStreamingCall(Entry("start", ch))
            /\ nStartCalls' = nStartCalls + 1
    /\ ev' = <<"start", 0>>
    /\ UNCHANGED <<ready, voice, abortController,
                   currentChannelEntry, streamSpectatorMonitor, timers,
                   streamAloneTime, pipes, cont, mustFire,
                   nCmds, sessionPipe, fired>>
    /\ UNCHANGED elsewhere

StartCall(ch) == StartCallUpTo(ch, MaxStarts)

\* one more start request than SessionSpec allows
Restart(ch) == StartCallUpTo(ch, MaxStarts + 1)

\* stopStreaming() called by the command layer
StopRequest ==
    /\ cont = None
    /\ nCmds < MaxCmds
    /\ nCmds' = IF ready THEN nCmds + 1 ELSE nCmds
    /\ StopStreamingCall(Entry("stop", NoChannel))
    /\ ev' = <<"stop", 0>>
    /\ UNCHANGED <<ready, voice, abortController,
                   currentChannelEntry, streamSpectatorMonitor, timers,
                   streamAloneTime, pipes, cont, mustFire,
                   nStartCalls, sessionPipe, fired>>
    /\ UNCHANGED elsewhere

\* mutant: leaveVoice() without stopping the stream first
LeaveWithoutStop ==
    IF ~ready
    THEN UNCHANGED <<aborted, stopQ, voice>>
    ELSE /\ voice' = NoVoice
         /\ UNCHANGED <<aborted, stopQ>>

\* leaveVoiceChannel(), lines 183-201: stop if a channel is current, then
\* streamer.leaveVoice()
LeaveVoiceChannel ==
    IF ~ready
    THEN UNCHANGED <<aborted, stopQ, voice>>
    ELSE IF currentChannelEntry # NoChannel
         THEN /\ StopStreamingCall(Entry("leaveVoice", NoChannel))
              /\ UNCHANGED voice
         ELSE /\ voice' = NoVoice
              /\ UNCHANGED <<aborted, stopQ>>

\* leaveVoiceChannel() called by the command layer
LeaveRequest ==
    /\ cont = None
    /\ nCmds < MaxCmds
    /\ nCmds' = IF ready THEN nCmds + 1 ELSE nCmds
    /\ LeaveVoiceChannel
    /\ ev' = IF ready /\ currentChannelEntry # NoChannel
             THEN <<"leaveCall", 0>> ELSE <<"left", {}>>
    /\ UNCHANGED <<ready, abortController,
                   currentChannelEntry, streamSpectatorMonitor, timers,
                   streamAloneTime, pipes, cont, mustFire,
                   nStartCalls, sessionPipe, fired>>
    /\ UNCHANGED elsewhere

\* mutant: the interval timer is not cleared
StopTailKeepsMonitor ==
    /\ abortController' = FreshCtl
    /\ aborted' = aborted \cap PipeIds
    /\ UNCHANGED <<timers, streamSpectatorMonitor>>
    /\ streamAloneTime' = 0
    /\ currentChannelEntry' = NoChannel

\* stopStreaming() behind its await, lines 345-360
StopTail ==
    /\ abortController' = FreshCtl
    /\ aborted' = aborted \cap PipeIds
    /\ timers' = ClearedTimers
    /\ streamSpectatorMonitor' = NoTimer
    /\ streamAloneTime' = 0
    /\ currentChannelEntry' = NoChannel

\* the oldest grace timer fires and its stopStreaming() returns to its caller
StopReturn ==
    /\ cont = None
    /\ stopQ # <<>>
    /\ StopTail
    /\ cont' = IF Head(stopQ).k \in NoCont THEN None ELSE Head(stopQ)
    /\ stopQ' = Tail(stopQ)
    /\ mustFire' = Max(mustFire - 1, 0)
    /\ sessionPipe' = {}
    /\ ev' = <<"stopReturn", Head(stopQ)>>
    /\ UNCHANGED <<ready, voice, pipes, nStartCalls, nCmds, fired>>
    /\ UNCHANGED elsewhere

\* startSpectatorMonitoring(), lines 209-219: reset, clear, arm
StartSpectatorMonitoring ==
    /\ streamAloneTime' = 0
    /\ streamSpectatorMonitor' = TheTimer
    /\ timers' = ClearedTimers \cup {TheTimer}

\* after: the live pipeline of another channel that was current when this
\* start was called (history)
NewPipe(e) ==
    [ch |-> e.ch, running |-> TRUE, playing |-> TRUE,
     after |-> IF e.cur # e.ch THEN e.sess ELSE {}]

\* startStreaming behind "await stopStreaming()", lines 281-322:
\* prepareStream, currentChannelEntry, the handlers, the monitor, playStream.
\* ok = FALSE: building the pipeline throws (line 281 on an entry without
\* url, or prepareStream) and the catch block calls stopStreaming
ContinueStart(ok) ==
    /\ cont.k = "start"
    /\ cont' = None
    /\ IF ok
       THEN /\ pipes' = (abortController :> NewPipe(cont)) @@ pipes
            /\ currentChannelEntry' = cont.ch
            /\ StartSpectatorMonitoring
            /\ mustFire' = Len(stopQ)
            /\ sessionPipe' = {abortController}
            /\ fired' = 0
            /\ UNCHANGED <<aborted, stopQ>>
       ELSE /\ StopStreamingCall(Entry("none", NoChannel))
            /\ UNCHANGED <<pipes, currentChannelEntry, streamSpectatorMonitor,
                           timers, streamAloneTime, mustFire, sessionPipe, fired>>
    /\ ev' = <<"built", ok>>
    /\ UNCHANGED <<ready, voice, abortController, nStartCalls, nCmds>>
    /\ UNCHANGED elsewhere

\* the monitor's stopStreaming().then(() => leaveVoiceChannel()), lines 242-244
ContinueLeave ==
    /\ cont.k = "leave"
    /\ cont' = None
    /\ LeaveVoiceChannel
    /\ ev' = IF currentChannelEntry # NoChannel
             THEN <<"leaveCall", 0>> ELSE <<"left", cont.sess>>
    /\ UNCHANGED <<ready, abortController,
                   currentChannelEntry, streamSpectatorMonitor, timers,
                   streamAloneTime, pipes, mustFire,
                   nStartCalls, nCmds, sessionPipe, fired>>
    /\ UNCHANGED elsewhere

\* leaveVoiceChannel behind "await stopStreaming()": streamer.leaveVoice()
ContinueLeaveVoice ==
    /\ cont.k = "leaveVoice"
    /\ cont' = None
    /\ voice' = NoVoice
    /\ ev' = <<"left", cont.sess>>
    /\ UNCHANGED <<ready, abortController, aborted,
                   currentChannelEntry, streamSpectatorMonitor, timers,
                   streamAloneTime, pipes, stopQ, mustFire,
                   nStartCalls, nCmds, sessionPipe, fired>>
    /\ UNCHANGED elsewhere

\* mutant: only the "error" handler calls stopStreaming
HandlerStopsOnErrorOnly(kind) == kind = "error"

\* the "error" and "end" handlers of the command, lines 299-312: does the
\* handler of this event call stopStreaming?
HandlerStops(kind) == kind # "error255"

\* the ffmpeg process of pipeline p exits and the command emits its event
PipeExit(p, kind) ==
    /\ cont = None
    /\ pipes[p].running
    /\ pipes' = Collect([pipes EXCEPT ![p].running = FALSE])
    /\ IF HandlerStops(kind)
       THEN StopStreamingCall(Entry("none", NoChannel))
       ELSE UNCHANGED <<aborted, stopQ>>
    /\ ev' = <<kind, 0>>
    /\ UNCHANGED <<ready, voice, abortController,
                   currentChannelEntry, streamSpectatorMonitor, timers,
                   streamAloneTime, cont, mustFire,
                   nStartCalls, nCmds, sessionPipe, fired>>
    /\ UNCHANGED elsewhere

\* playStream of pipeline p settles: the finally block (cleanupMonitoring,
\* lines 256-263) and, when it rejected, the catch block (lines 327-330).
\* It resolves when its input has ended or its signal was raised; it may
\* reject at any time.
PlaySettles(p, ok) ==
    /\ cont = None
    /\ pipes[p].playing
    /\ ok => (~pipes[p].running \/ p \in aborted)
    /\ pipes' = Collect([pipes EXCEPT ![p].playing = FALSE])
    /\ timers' = ClearedTimers
    /\ streamSpectatorMonitor' = NoTimer
    /\ streamAloneTime' = 0
    /\ IF ok
       THEN UNCHANGED <<aborted, stopQ>>
       ELSE StopStreamingCall(Entry("none", NoChannel))
    /\ ev' = <<IF ok THEN "resolved" ELSE "rejected", 0>>
    /\ UNCHANGED <<ready, voice, abortController,
                   currentChannelEntry, cont, mustFire,
                   nStartCalls, nCmds, sessionPipe, fired>>
    /\ UNCHANGED elsewhere

\* mutant: an interval shorter than the grace wait of stopStreaming
PollWithinGrace(t, v, b) ==
    /\ cont = None
    /\ t \in timers
    /\ IF voice = NoVoice
       THEN UNCHANGED <<streamAloneTime, aborted, stopQ, fired>>
       ELSE IF Members(v, b) = 0
            THEN /\ streamAloneTime' = streamAloneTime + PollSeconds
                 /\ IF streamAloneTime' >= Threshold
                    THEN /\ StopStreamingCall(Entry("leave", NoChannel))
                         /\ fired' = fired + 1
                    ELSE UNCHANGED <<aborted, stopQ, fired>>
            ELSE /\ streamAloneTime' = 0
                 /\ UNCHANGED <<aborted, stopQ, fired>>
    /\ mustFire' = Len(stopQ')
    /\ ev' = IF voice = NoVoice THEN <<"pollNoVoice", 0>> ELSE <<"poll", v>>
    /\ UNCHANGED <<ready, voice, abortController,
                   currentChannelEntry, streamSpectatorMonitor, timers,
                   pipes, cont, nStartCalls, nCmds, sessionPipe>>
    /\ UNCHANGED elsewhere

\* one tick of the interval timer t with v viewers and b bots in the channel, lines
\* 219-254.  The interval is ten grace waits long: every grace timer armed
\* before the previous tick (or before the timer was armed) has fired
\* before this tick.
Poll(t, v, b) ==
    /\ cont = None
    /\ t \in timers
    /\ mustFire = 0
    /\ IF voice = NoVoice
       THEN UNCHANGED <<streamAloneTime, aborted, stopQ, fired>>
       ELSE IF Members(v, b) = 0
            THEN /\ streamAloneTime' = streamAloneTime + PollSeconds
                 /\ IF streamAloneTime' >= Threshold
                    THEN /\ StopStreamingCall(Entry("leave", NoChannel))
                         /\ fired' = fired + 1
                    ELSE UNCHANGED <<aborted, stopQ, fired>>
            ELSE /\ streamAloneTime' = 0
                 /\ UNCHANGED <<aborted, stopQ, fired>>
    /\ mustFire' = Len(stopQ')
    /\ ev' = IF voice = NoVoice THEN <<"pollNoVoice", 0>> ELSE <<"poll", v>>
    /\ UNCHANGED <<ready, voice, abortController,
                   currentChannelEntry, streamSpectatorMonitor, timers,
                   pipes, cont, nStartCalls, nCmds, sessionPipe>>
    /\ UNCHANGED elsewhere

SessionNext ==
    \/ Login
    \/ \E vc \in VoiceChannels : JoinVoice(vc)
    \/ \E ch \in Channels : StartCall(ch)
    \/ StopRequest
    \/ LeaveRequest
    \/ StopReturn
    \/ \E ok \in BOOLEAN : ContinueStart(ok)
    \/ ContinueLeave
    \/ ContinueLeaveVoice
    \/ \E p \in PipeIds : \E kind \in ExitKinds : PipeExit(p, kind)
    \/ \E p \in PipeIds : \E ok \in BOOLEAN : PlaySettles(p, ok)
    \/ \E t \in timers : \E v \in 0..MaxViewers : \E b \in 0..MaxBots : Poll(t, v, b)

SessionSpec == SessionInit /\ [][SessionNext]_vars

\* the same program with one more start request
RestartNext ==
    \/ Login
    \/ \E vc \in VoiceChannels : JoinVoice(vc)
    \/ \E ch \in Channels : Restart(ch)
    \/ StopRequest
    \/ LeaveRequest
    \/ StopReturn
    \/ \E ok \in BOOLEAN : ContinueStart(ok)
    \/ ContinueLeave
    \/ ContinueLeaveVoice
    \/ \E p \in PipeIds : \E kind \in ExitKinds : PipeExit(p, kind)
    \/ \E p \in PipeIds : \E ok \in BOOLEAN : PlaySettles(p, ok)
    \/ \E t \in timers : \E v \in 0..MaxViewers : \E b \in 0..MaxBots : Poll(t, v, b)

RestartSpec == SessionInit /\ [][RestartNext]_vars

\* --------------------------------------------------------- fetchWithRetry
\* what fetchWithRetry does not touch
besidesFetch == <<vars, staleVars, mergeVars, refreshVars, tickVars, execVars, dbVars, parseVars, guideVars, resultVars>>

\* mutant: the loop runs once more
LoopContinuesOnceMore(a) == a <= maxRetries

\* for (let attempt = 1; attempt <= maxRetries; attempt++): is there another
\* pass after pass a?
LoopContinues(a) == a + 1 <= maxRetries

\* if (attempt < maxRetries), line 67
MayRetry(a) == a < maxRetries

\* the download starts from a cache that holds the file or does not
FetchInit ==
    /\ SessionNotStarted
    /\ NoProgrammes
    /\ NoChannels
    /\ RefreshNotStarted
    /\ NoCommand
    /\ NoReplacement
    /\ NothingParsed
    /\ NoGuide
    /\ TicksNotStarted
    /\ fetchPc = "idle"
    /\ attempt = 0
    /\ retryDelay = 0
    /\ cacheBlob \in {NoBlob, OldBlob}
    /\ fetchResult = "pending"
    /\ trail = <<>>

\* fetchWithRetry(url, cacheFileName), lines 15-32: the first pass of the loop
\* up to its axios.get
FetchCall ==
    /\ fetchPc = "idle"
    /\ attempt' = 1
    /\ retryDelay' = InitialRetryDelay
    /\ fetchPc' = "request"
    /\ trail' = Append(trail, <<"attempt", 1, "-">>)
    /\ UNCHANGED <<cacheBlob, fetchResult>>
    /\ UNCHANGED besidesFetch

\* the next pass of the loop, or "return null" behind it (lines 21, 82)
NextPass(tr) ==
    IF LoopContinues(attempt)
    THEN /\ attempt' = attempt + 1
         /\ fetchPc' = "request"
         /\ trail' = Append(tr, <<"attempt", attempt + 1, "-">>)
         /\ UNCHANGED fetchResult
    ELSE /\ fetchPc' = "done"
         /\ fetchResult' = NoBlob
         /\ trail' = tr
         /\ UNCHANGED attempt

\* axios.get settles, lines 32-74
Respond(kind) ==
    /\ fetchPc = "request"
    /\ LET tr == Append(trail, <<"outcome", attempt, kind>>)
       IN  CASE kind = "data" ->
                  /\ fetchPc' = "caching"
                  /\ trail' = tr
                  /\ UNCHANGED <<attempt, fetchResult>>
             [] kind = "empty" -> NextPass(tr)
             [] OTHER ->
                  /\ IF MayRetry(attempt)
                     THEN /\ fetchPc' = "sleep"
                          /\ trail' = Append(tr, <<"sleep", retryDelay, "-">>)
                     ELSE /\ fetchPc' = "readCache"
                          /\ trail' = tr
                  /\ UNCHANGED <<attempt, fetchResult>>
    /\ UNCHANGED <<retryDelay, cacheBlob>>
    /\ UNCHANGED besidesFetch

\* the wait of retryDelay seconds is over: retryDelay *= 2, next pass
Wake ==
    /\ fetchPc = "sleep"
    /\ retryDelay' = retryDelay * 2
    /\ NextPass(trail)
    /\ UNCHANGED cacheBlob
    /\ UNCHANGED besidesFetch

\* cacheFile(cacheFileName, content) returns, lines 47-53; written = FALSE:
\* fs.writeFile failed, which cacheFile and fetchWithRetry only log
CacheFileDone(written) ==
    /\ fetchPc = "caching"
    /\ cacheBlob' = IF written THEN NetBlob ELSE cacheBlob
    /\ fetchResult' = NetBlob
    /\ fetchPc' = "done"
    /\ UNCHANGED <<attempt, retryDelay, trail>>
    /\ UNCHANGED besidesFetch

\* return await getCachedFile(cacheFileName), line 73
ReadCache ==
    /\ fetchPc = "readCache"
    /\ fetchResult' = cacheBlob
    /\ fetchPc' = "done"
    /\ UNCHANGED <<attempt, retryDelay, cacheBlob, trail>>
    /\ UNCHANGED besidesFetch

FetchNext ==
    \/ FetchCall
    \/ \E kind \in Outcomes : Respond(kind)
    \/ Wake
    \/ \E written \in BOOLEAN : CacheFileDone(written)
    \/ ReadCache

FetchSpec == FetchInit /\ [][FetchNext]_fetchVars

\* --------------------------------------------------- isProgrammeDataStale
besidesStale == <<vars, fetchVars, mergeVars, refreshVars, tickVars, execVars, dbVars, parseVars, guideVars, resultVars>>

\* ProgrammeEntry, the fields isProgrammeDataStale reads
ProgrammeEntries ==
    [created_at : 0..MaxClock, stop_timestamp : (0..MaxClock) \cup {NoStop}]

\* isOlderThanSetRefreshTime(dateString), part_002 lines 94-98
isOlderThanSetRefreshTime(created, t) ==
    (t - created) > Max(REFRESH_IPTV - GraceMinutes, 0)

\* isProgrammeDataStale(), part_002 lines 56-85; every stored record has a
\* created_at (buildProgrammeEntry sets it), so !createdAt never holds
isProgrammeDataStale(progs, t) ==
    IF Len(progs) = 0
    THEN TRUE
    ELSE IF isOlderThanSetRefreshTime(progs[1].created_at, t)
         THEN TRUE
         ELSE ~ \E i \in 1..Len(progs) :
                    /\ progs[i].stop_timestamp # NoStop
                    /\ progs[i].stop_timestamp >= t

\* the records of one addProgrammes call are stamped one after the other by
\* buildProgrammeEntry: their creation times do not decrease along the list
\* and none lies in the future
StaleInit ==
    /\ SessionNotStarted
    /\ FetchNotCalled
    /\ NoChannels
    /\ RefreshNotStarted
    /\ NoCommand
    /\ NoReplacement
    /\ NothingParsed
    /\ NoGuide
    /\ TicksNotStarted
    /\ now \in 0..MaxClock
    /\ programmes \in UNION {[1..n -> ProgrammeEntries] : n \in 0..MaxProgs}
    /\ \A i \in 1..Len(programmes) :
          /\ programmes[i].created_at <= now
          /\ i > 1 => programmes[i - 1].created_at <= programmes[i].created_at
    /\ stale = "unknown"

CheckStale ==
    /\ stale = "unknown"
    /\ stale' = IF isProgrammeDataStale(programmes, now) THEN "true" ELSE "false"
    /\ UNCHANGED <<programmes, now>>
    /\ UNCHANGED besidesStale

StaleSpec == StaleInit /\ [][CheckStale]_staleVars

\* ---------------------------------------------------- syncPlaylistChannels
besidesMerge == <<vars, fetchVars, staleVars, refreshVars, tickVars, execVars, dbVars, parseVars, guideVars, resultVars>>

\* ChannelEntry as extractChannelData builds it, or as an earlier merge left it
GuideRecords ==
    { [tvg_id |-> id, tvg_name |-> name, url |-> f[1], group_title |-> f[2],
       tvg_logo |-> f[3]] :
        id \in GuideIds, name \in {"", "N"},
        f \in {<<"", "", "">>, <<"U0", "G0", "L0">>} }

\* ChannelEntry as fromPlaylistLine builds it, with the url of the next line
\* (group-title and tvg-logo both given or both missing)
PlaylistRecords ==
    { [tvg_id |-> id, tvg_name |-> name, url |-> u, group_title |-> f[1],
       tvg_logo |-> f[2]] :
        id \in {"", "c1"}, name \in {"", "P"}, u \in {"U", "V"},
        f \in {<<"", "">>, <<"G", "L">>} }

Playlists(n) == UNION {[1..k -> PlaylistRecords] : k \in 0..n}

\* a Map as the sequence of its entries, in insertion order
KeyIndex(m, k) ==
    IF \E i \in 1..Len(m) : m[i].key = k
    THEN CHOOSE i \in 1..Len(m) : m[i].key = k
    ELSE 0

\* Map.prototype.set
MapSet(m, k, v) ==
    IF KeyIndex(m, k) # 0
    THEN [m EXCEPT ![KeyIndex(m, k)].val = v]
    ELSE Append(m, [key |-> k, val |-> v])

RECURSIVE MapOf(_, _)
\* new Map(existingChannels.map(ch => [ch.tvg_id, ch])), from entry i on
MapOf(existing, i) ==
    IF i = 0
    THEN <<>>
    ELSE MapSet(MapOf(existing, i - 1), existing[i].tvg_id, existing[i])

\* mutant: a match takes the playlist entry whole
ReplaceExisting(existingCh, playlistCh) == playlistCh

\* lines 197-199: what a match changes in the existing record
UpdateExisting(existingCh, playlistCh) ==
    [existingCh EXCEPT
        !.url = playlistCh.url,
        !.group_title = IF playlistCh.group_title # "" THEN playlistCh.group_title ELSE @,
        !.tvg_logo = IF playlistCh.tvg_logo # "" THEN playlistCh.tvg_logo ELSE @]

\* `playlist_${playlistChannels.indexOf(playlistCh)}`, i counted from 1
PositionalKey(i) == "playlist_" \o ToString(i - 1)

\* one pass of the loop of lines 194-205
MergeOne(m, playlistCh, i) ==
    LET at == IF playlistCh.tvg_id # "" THEN KeyIndex(m, playlistCh.tvg_id) ELSE 0
    IN  IF at # 0
        THEN [m EXCEPT ![at].val = UpdateExisting(m[at].val, playlistCh)]
        ELSE MapSet(m,
                    IF playlistCh.tvg_id # "" THEN playlistCh.tvg_id ELSE PositionalKey(i),
                    playlistCh)

RECURSIVE MergeFrom(_, _, _)
MergeFrom(m, pl, i) ==
    IF i > Len(pl) THEN m ELSE MergeFrom(MergeOne(m, pl[i], i), pl, i + 1)

\* Array.from(channelMap.values())
mergedChannels(existing, pl) ==
    LET m == MergeFrom(MapOf(existing, Len(existing)), pl, 1)
    IN  [i \in 1..Len(m) |-> m[i].val]

\* lines 209-214: the database after the merge
Synchronized(existing, pl) ==
    IF Len(mergedChannels(existing, pl)) > 0
    THEN mergedChannels(existing, pl)
    ELSE existing

\* the channel records of a guide: one record for each of some guide ids
MergeInit ==
    /\ SessionNotStarted
    /\ FetchNotCalled
    /\ NoProgrammes
    /\ RefreshNotStarted
    /\ NoCommand
    /\ NoReplacement
    /\ NothingParsed
    /\ NoGuide
    /\ TicksNotStarted
    /\ channels \in UNION {[1..k -> GuideRecords] : k \in 0..Cardinality(GuideIds)}
    /\ \A i, j \in 1..Len(channels) : i # j => channels[i].tvg_id # channels[j].tvg_id
    /\ channelsBefore = channels
    /\ playlistChannels = <<>>

\* the merge of syncPlaylistChannels, lines 188-214
MergePlaylist(pl) ==
    /\ playlistChannels' = pl
    /\ channelsBefore' = channels
    /\ channels' = Synchronized(channels, pl)
    /\ UNCHANGED besidesMerge

\* one merge in a behaviour
MergeNext ==
    /\ playlistChannels = <<>>
    /\ \E pl \in Playlists(MaxPlaylist) : MergePlaylist(pl)

MergeSpec == MergeInit /\ [][MergeNext]_mergeVars

\* refresh("channels") once more against the playlist of the last run; the
\* runs end when the stored set has outgrown what one merge can produce
SyncAgain ==
    /\ playlistChannels # <<>>
    /\ Len(channels) <= Cardinality(GuideIds) + MaxPlaylist
    /\ MergePlaylist(playlistChannels)

RepeatNext == MergeNext \/ SyncAgain

RepeatSpec == MergeInit /\ [][RepeatNext]_mergeVars

\* ------------------------------------------- refresh of the two sources
besidesRefresh == <<vars, fetchVars, tickVars, execVars, dbVars, parseVars, guideVars>>

\* the guide channel and the playlist entries the remote sources serve
GuideChannel ==
    [tvg_id |-> "c1", tvg_name |-> "N", url |-> "", group_title |-> "", tvg_logo |-> ""]

WithId ==
    [tvg_id |-> "c1", tvg_name |-> "P", url |-> "U", group_title |-> "G", tvg_logo |-> "L"]

WithoutId ==
    [tvg_id |-> "", tvg_name |-> "P", url |-> "V", group_title |-> "", tvg_logo |-> ""]

\* what extractXMLTVData reads from an xmltv file: the channel records and
\* the stop times of the programmes
Guides ==
    { [channels |-> <<>>, stops |-> <<>>],
      [channels |-> <<GuideChannel>>, stops |-> <<0>>],
      [channels |-> <<GuideChannel>>, stops |-> <<MaxClock>>] }

\* what the playlist lines of a playlist file parse to
PlaylistFeed == {<<>>, <<WithId>>, <<WithoutId>>}

\* how a call of fetchWithRetry ends: the source answers with content and
\* the content is cached ("net") or the cache write fails ("netUncached"),
\* every attempt fails with an error ("fail": the cached copy is returned),
\* or every answer is empty ("null")
FetchOutcomes(contents) ==
    { [kind |-> k, content |-> c] : k \in {"net", "netUncached"}, c \in contents }
    \cup { [kind |-> k, content |-> CHOOSE c \in contents : TRUE] : k \in {"fail", "null"} }

\* a request for a url that is not configured ('') fails
OutcomesFor(src, contents) ==
    IF src \in sources
    THEN FetchOutcomes(contents)
    ELSE {o \in FetchOutcomes(contents) : o.kind = "fail"}

\* the value fetchWithRetry returns; <<>> is null
FetchReturn(out, cachedFile) ==
    CASE out.kind \in {"net", "netUncached"} -> <<out.content>>
      [] out.kind = "fail" -> cachedFile
      [] OTHER -> <<>>

\* downloaders.ts lines 70-72 with no cached file: "Maximum retries
\* reached" and getCachedFile returns null
FetchFailed(out, cachedFile) == out.kind = "fail" /\ cachedFile = <<>>

\* the cache file after fetchWithRetry
CacheAfterFetch(out, cachedFile) ==
    IF out.kind = "net" THEN <<out.content>> ELSE cachedFile

\* buildProgrammeEntry for every programme of the guide
Stamp(stops) ==
    [i \in 1..Len(stops) |-> [created_at |-> now, stop_timestamp |-> stops[i]]]

\* the state a refresh operation works on; guide and playlist are the
\* contents it came to parse, <<>> when it did not get that far; failed
\* holds the sources whose download ran out of attempts with nothing cached
Working ==
    [ch |-> channels, pr |-> programmes, cache |-> cacheFiles, fetched |-> {}, failed |-> {},
     stale |-> stale, guide |-> <<>>, playlist |-> <<>>]

\* mutant: a cached file spares the download even when forced
NeedsFetchUnlessCached(cachedFile, force) == cachedFile = <<>>

\* if (!xmltvContent || force), if (!playlistContent || force)
NeedsFetch(cachedFile, force) == cachedFile = <<>> \/ force

\* mutant: the tables are cleared before the download is known to have
\* succeeded
ReturnedAfterClearing(st) == [st EXCEPT !.ch = <<>>, !.pr = <<>>]

\* the `return` of index.ts lines 66-69, 73-76, 149-160: nothing was read,
\* nothing is written
Returned(st) == st

\* populateDatabaseFromXMLTV(force), index.ts lines 51-119
Populate(st, force, out) ==
    LET isStale == isProgrammeDataStale(st.pr, now)
        seen == [st EXCEPT !.stale = IF isStale THEN "true" ELSE "false"]
        doFetch == NeedsFetch(st.cache.xmltv, force)
        content == IF doFetch THEN FetchReturn(out, st.cache.xmltv) ELSE st.cache.xmltv
        st1 == [seen EXCEPT
                   !.cache.xmltv = IF doFetch THEN CacheAfterFetch(out, @) ELSE @,
                   !.fetched = IF doFetch THEN @ \cup {"xmltv"} ELSE @,
                   !.failed = IF doFetch /\ FetchFailed(out, st.cache.xmltv)
                              THEN @ \cup {"xmltv"} ELSE @]
    IN  IF ~isStale /\ ~force
        THEN seen
        ELSE IF content = <<>> \/ st1.cache.xmltv = <<>>
             THEN Returned(st1)
             ELSE [st1 EXCEPT
                      !.guide = content,
                      !.cache.xmltv = content,
                      !.ch = IF content[1].channels # <<>> THEN content[1].channels ELSE @,
                      !.pr = IF content[1].stops # <<>> THEN Stamp(content[1].stops) ELSE @]

\* mutant: the playlist refresh imports the guide as well
SyncWithGuide(st, force, out) ==
    Populate(st, force,
             [kind |-> "net", content |-> [channels |-> <<GuideChannel>>, stops |-> <<MaxClock>>]])

\* syncPlaylistChannels(force), index.ts lines 126-220
Sync(st, force, out) ==
    LET doFetch == NeedsFetch(st.cache.playlist, force)
        content == IF doFetch THEN FetchReturn(out, st.cache.playlist) ELSE st.cache.playlist
        st1 == [st EXCEPT
                   !.cache.playlist = IF doFetch THEN CacheAfterFetch(out, @) ELSE @,
                   !.fetched = IF doFetch THEN @ \cup {"playlist"} ELSE @,
                   !.failed = IF doFetch /\ FetchFailed(out, st.cache.playlist)
                              THEN @ \cup {"playlist"} ELSE @]
    IN  IF content = <<>>
        THEN Returned(st1)
        ELSE [st1 EXCEPT !.playlist = content,
                         !.ch = Synchronized(@, content[1])]

\* clearCache
Cleared(st) == [st EXCEPT !.cache = [xmltv |-> <<>>, playlist |-> <<>>]]

\* downloadCacheAndFillDb(force) up to clearCache, index.ts lines 21-38
FillDb(st, force, ox, op) ==
    Cleared(IF "xmltv" \in sources
            THEN IF "playlist" \in sources
                 THEN Sync(Populate(st, force, ox), force, op)
                 ELSE Populate(st, force, ox)
            ELSE IF "playlist" \in sources
                 THEN Sync(st, force, op)
                 ELSE st)

\* the operation leaves the database, the cache and its trace behind
Commit(st, name, force) ==
    /\ channels' = st.ch
    /\ programmes' = st.pr
    /\ cacheFiles' = st.cache
    /\ stale' = st.stale
    /\ opLog' = [op |-> name, forced |-> force, fetched |-> st.fetched,
                 failed |-> st.failed,
                 cached |-> {src \in Sources : cacheFiles[src] # <<>>},
                 guide |-> st.guide, playlist |-> st.playlist,
                 channelsThen |-> channels, programmesThen |-> programmes]
    /\ UNCHANGED <<sources, now, channelsBefore, playlistChannels>>
    /\ UNCHANGED besidesRefresh

\* mutant: the previous interval is left armed
RescheduledKeepingOld ==
    /\ nSchedules' = nSchedules + 1
    /\ refreshIntervalId' = nSchedules + 1
    /\ intervals' = intervals \cup {nSchedules + 1}

\* scheduleIPTVRefresh(), schedulers.ts lines 14-36
Rescheduled ==
    /\ nSchedules' = nSchedules + 1
    /\ refreshIntervalId' = nSchedules + 1
    /\ intervals' = (intervals \ {refreshIntervalId}) \cup {nSchedules + 1}

\* mutant: every downloadCacheAndFillDb schedules the refresh
ScheduleAfterFillAlways(force) == Rescheduled

\* downloadCacheAndFillDb(force), index.ts lines 40-43: if (!force)
\* scheduleIPTVRefresh()
ScheduleAfterFill(force) ==
    IF ~force
    THEN Rescheduled
    ELSE UNCHANGED <<refreshIntervalId, intervals, nSchedules>>

\* the database and the configuration the process starts with: no
\* programmes, programmes of just now, or programmes of long ago
RefreshInit ==
    /\ SessionNotStarted
    /\ FetchNotCalled
    /\ now = MaxClock
    /\ stale = "unknown"
    /\ programmes \in {<<>>} \cup
          {<<[created_at |-> c, stop_timestamp |-> MaxClock]>> : c \in {0, MaxClock}}
    /\ channels \in {<<>>, <<GuideChannel>>}
    /\ channelsBefore = <<>>
    /\ playlistChannels = <<>>
    /\ sources \in SUBSET Sources
    /\ cacheFiles = [xmltv |-> <<>>, playlist |-> <<>>]
    /\ refreshIntervalId = NoInterval
    /\ intervals = {}
    /\ nSchedules = 0
    /\ opLog = NoOp
    /\ NoCommand
    /\ NoReplacement
    /\ NothingParsed
    /\ NoGuide
    /\ TicksNotStarted

\* startOrbisCast: await downloadCacheAndFillDb(), index.ts line 16
Startup ==
    /\ opLog.op = "none"
    /\ nSchedules = 0
    /\ \E ox \in OutcomesFor("xmltv", Guides), op \in OutcomesFor("playlist", PlaylistFeed) :
          Commit(FillDb(Working, FALSE, ox, op), "startup", FALSE)
    /\ ScheduleAfterFill(FALSE)
    /\ UNCHANGED result

\* executeRefresh(type), part_000 lines 351-372
\* a promise of the command layer that resolved to { success, message }
Settled(of, success, message, channel) ==
    [of |-> of, outcome |-> "resolved", success |-> success,
     message |-> message, channel |-> channel]

\* a promise of the command layer that rejected
Rejected(of) ==
    [of |-> of, outcome |-> "rejected", success |-> FALSE,
     message |-> "", channel |-> ""]

\* what executeRefresh(type) returns when nothing throws, part_000 lines 353-368
RefreshReturn(type) ==
    IF type \in {"all", "channels", "programme"}
    THEN Settled("refresh", TRUE, "Successfully refreshed " \o type \o " data.", "")
    ELSE Settled("refresh", FALSE, "Unknown refresh type: " \o type, "")

\* the catch block of executeRefresh, part_000 lines 369-372
RefreshCatch(type) ==
    Settled("refresh", FALSE, "Failed to refresh " \o type \o " data.", "")

Refresh(type) ==
    /\ opLog.op # "none"
    /\ result' = RefreshReturn(type)
    /\ CASE type = "all" ->
              \E ox \in OutcomesFor("xmltv", Guides),
                 op \in OutcomesFor("playlist", PlaylistFeed) :
                  /\ Commit(FillDb(Working, TRUE, ox, op), type, TRUE)
                  /\ ScheduleAfterFill(TRUE)
         [] type = "channels" ->
              \E op \in OutcomesFor("playlist", PlaylistFeed) :
                  /\ Commit(Sync(Working, TRUE, op), type, TRUE)
                  /\ UNCHANGED <<refreshIntervalId, intervals, nSchedules>>
         [] type = "programme" ->
              \E ox \in OutcomesFor("xmltv", Guides) :
                  /\ Commit(Populate(Working, TRUE, ox), type, TRUE)
                  /\ UNCHANGED <<refreshIntervalId, intervals, nSchedules>>
         [] OTHER ->
              /\ Commit(Working, type, FALSE)
              /\ UNCHANGED <<refreshIntervalId, intervals, nSchedules>>

\* the callback of setInterval, schedulers.ts lines 24-35
IntervalTick ==
    /\ intervals # {}
    /\ \E ox \in OutcomesFor("xmltv", Guides), op \in OutcomesFor("playlist", PlaylistFeed) :
          Commit(Cleared(Populate(Sync(Working, TRUE, op), TRUE, ox)), "tick", TRUE)
    /\ UNCHANGED <<refreshIntervalId, intervals, nSchedules, result>>

\* scheduleIPTVRefresh() called again
Schedule ==
    /\ nSchedules < MaxSchedules
    /\ Rescheduled
    /\ UNCHANGED <<sources, cacheFiles, opLog>>
    /\ UNCHANGED <<staleVars, mergeVars, besidesRefresh, resultVars>>

\* stopIPTVRefresh(), schedulers.ts lines 42-50
StopRefresh ==
    /\ intervals' = intervals \ {refreshIntervalId}
    /\ refreshIntervalId' = NoInterval
    /\ UNCHANGED <<sources, cacheFiles, nSchedules, opLog>>
    /\ UNCHANGED <<staleVars, mergeVars, besidesRefresh, resultVars>>

RefreshNext ==
    \/ Startup
    \/ \E type \in {"all", "channels", "programme", "other"} : Refresh(type)
    \/ IntervalTick

\* the scheduler with its callers
SchedulerNext ==
    \/ Schedule
    \/ StopRefresh
    \/ IntervalTick

RefreshSpec == RefreshInit /\ [][RefreshNext]_<<staleVars, mergeVars, refreshVars>>

SchedulerSpec == RefreshInit /\ [][SchedulerNext]_<<staleVars, mergeVars, refreshVars>>

\* ------------------------------ the interval callback, await by await
\* what a step of the callback leaves alone
besidesTick ==
    <<sources, refreshIntervalId, intervals, nSchedules, opLog, now,
      channelsBefore, playlistChannels, vars, fetchVars, execVars, dbVars, parseVars, guideVars, resultVars>>

Without(f, j) == [k \in DOMAIN f \ {j} |-> f[k]]

\* setInterval(callback, refreshIntervalMs) fires, schedulers.ts line 24:
\* the timer does not wait for the promise of the previous callback, and a
\* refresh is not bounded by the interval (REFRESH_IPTV may be 1 minute,
\* the downloads of one refresh alone may take 2 * (3 * 30 + 15) seconds)
TickBegins ==
    /\ intervals # {}
    /\ nTicks < MaxTicks
    /\ nTicks' = nTicks + 1
    /\ running' = (nTicks + 1 :> "sync") @@ running
    /\ UNCHANGED <<tickLog, channels, programmes, stale, cacheFiles>>
    /\ UNCHANGED besidesTick

\* await syncPlaylistChannels(true) returns, line 28
TickSync(j) ==
    /\ running[j] = "sync"
    /\ \E op \in OutcomesFor("playlist", PlaylistFeed) :
          LET st == Sync(Working, TRUE, op)
          IN  /\ channels' = st.ch
              /\ cacheFiles' = st.cache
    /\ running' = [running EXCEPT ![j] = "populate"]
    /\ UNCHANGED <<nTicks, tickLog, programmes, stale>>
    /\ UNCHANGED besidesTick

\* await populateDatabaseFromXMLTV(true) returns, line 29
TickPopulate(j) ==
    /\ running[j] = "populate"
    /\ \E ox \in OutcomesFor("xmltv", Guides) :
          LET st == Populate(Working, TRUE, ox)
          IN  /\ channels' = st.ch
              /\ programmes' = st.pr
              /\ stale' = st.stale
              /\ cacheFiles' = st.cache
    /\ running' = [running EXCEPT ![j] = "clearCache"]
    /\ UNCHANGED <<nTicks, tickLog>>
    /\ UNCHANGED besidesTick

\* await clearCache() returns and the callback ends, lines 30-31
TickClearCache(j) ==
    /\ running[j] = "clearCache"
    /\ cacheFiles' = Cleared(Working).cache
    /\ running' = Without(running, j)
    /\ tickLog' = <<"ok", nTicks>>
    /\ UNCHANGED <<nTicks, channels, programmes, stale>>
    /\ UNCHANGED besidesTick

\* mutant: a failed refresh ends the schedule
CatchStopsTimer ==
    /\ intervals' = {}
    /\ refreshIntervalId' = NoInterval

\* catch (error) { logger.error(...) }, lines 32-34
CatchLogs == UNCHANGED <<intervals, refreshIntervalId>>

\* syncPlaylistChannels or populateDatabaseFromXMLTV rejects (a read or a
\* write of the database or of the cache file fails) and the catch block
\* of the callback runs
TickThrows(j) ==
    /\ running[j] \in {"sync", "populate"}
    /\ CatchLogs
    /\ running' = Without(running, j)
    /\ tickLog' = <<"failed", nTicks>>
    /\ UNCHANGED <<nTicks, channels, programmes, stale, cacheFiles>>
    /\ UNCHANGED <<sources, nSchedules, opLog, now,
                   channelsBefore, playlistChannels, vars, fetchVars,
                   execVars, dbVars, parseVars, guideVars, resultVars>>

TickNext ==
    \/ Schedule
    \/ StopRefresh
    \/ TickBegins
    \/ \E j \in DOMAIN running : TickSync(j)
    \/ \E j \in DOMAIN running : TickPopulate(j)
    \/ \E j \in DOMAIN running : TickClearCache(j)
    \/ \E j \in DOMAIN running : TickThrows(j)

\* both sources are configured, the database is empty
TickInit ==
    /\ RefreshInit
    /\ sources = Sources
    /\ channels = <<>>
    /\ programmes = <<>>

TickSpec ==
    TickInit /\ [][TickNext]_<<staleVars, mergeVars, refreshVars, tickVars>>

\* ------------------------------------------------------ the command layer
\* executeStreamChannel (part_001 lines 22-187) and executeRefresh
\* (part_000 lines 351-372) over the session manager and the database.

\* String.prototype.toLowerCase on the names in use
Lower(s) ==
    CASE s = "A" -> "a"
      [] s = "B" -> "b"
      [] s = "Z" -> "z"
      [] OTHER -> s

\* the names a user may type and the voice channel the user is in
RequestNames == {"", "a", "A", "B", "z"}
NoVoiceId == ""
TheVoice == "v1"
VoiceTargets == {NoVoiceId, TheVoice}

\* channel records of the database: one that can be streamed, one without tvg_id
EntryA ==
    [tvg_id |-> "c1", tvg_name |-> "A", url |-> "U", group_title |-> "", tvg_logo |-> ""]

EntryNoId ==
    [tvg_id |-> "", tvg_name |-> "B", url |-> "V", group_title |-> "", tvg_logo |-> ""]

\* channels.find(ch => ch.tvg_name?.toLowerCase() === channelName.toLowerCase()):
\* the position of the first match, 0 when there is none
FindChannel(name) ==
    LET hits == {i \in DOMAIN channels : Lower(channels[i].tvg_name) = Lower(name)}
    IN IF hits = {} THEN 0 ELSE CHOOSE i \in hits : \A j \in hits : i <= j

\* the checks before any call of the session manager, lines 33-49: the
\* message of the early return, "" when the request passes
Invalid(name, vc) ==
    IF name = "" THEN "Please specify a channel name."
    ELSE IF FindChannel(name) = 0 \/ channels[FindChannel(name)].tvg_id = ""
         THEN "Channel not found"
    ELSE IF vc = NoVoiceId
         THEN "You need to be in a voice channel to use this command."
    ELSE ""

\* mutant: the error leaves the function
StreamRethrows(where) == Rejected("start")

\* the two catch blocks of executeStreamChannel, lines 176-186
StreamCatch(where) ==
    IF where = "getChannelEntries"
    THEN Settled("start", FALSE, "An error occurred while fetching the stream information.", "")
    ELSE Settled("start", FALSE, "Error during streaming: " \o where, "")

\* the session state no awaited step of a rejected request may touch
sessionState ==
    <<ready, voice, abortController, aborted, currentChannelEntry,
      streamSpectatorMonitor, timers, streamAloneTime, pipes, stopQ, cont,
      mustFire, nStartCalls, nCmds, sessionPipe, fired>>

\* mutant: the session is stopped before the request is rejected
RejectedAfterStop ==
    /\ StopStreamingCall(Entry("stop", NoChannel))
    /\ UNCHANGED <<ready, voice, abortController, currentChannelEntry,
                   streamSpectatorMonitor, timers, streamAloneTime, pipes, cont,
                   mustFire, nStartCalls, nCmds, sessionPipe, fired>>

\* the early returns of lines 33-49 call nothing
RejectedEarly == UNCHANGED sessionState

\* executeStreamChannel(channelName, voiceChannelId) up to "await
\* initializeStreamer()", lines 22-52.  dbOk = FALSE: getChannelEntries throws
ExecBegin(name, vc, dbOk) ==
    /\ cont = None
    /\ exec = NoCall
    /\ IF name = ""
       THEN /\ result' = Settled("start", FALSE, Invalid(name, vc), "")
            /\ ev' = <<"invalid", 0>>
            /\ RejectedEarly
            /\ UNCHANGED exec
       ELSE IF ~dbOk
       THEN /\ result' = StreamCatch("getChannelEntries")
            /\ ev' = <<"dbError", 0>>
            /\ UNCHANGED sessionState
            /\ UNCHANGED exec
       ELSE IF Invalid(name, vc) # ""
       THEN /\ result' = Settled("start", FALSE, Invalid(name, vc), "")
            /\ ev' = <<"invalid", 0>>
            /\ RejectedEarly
            /\ UNCHANGED exec
       ELSE /\ exec' = [pc |-> "setup", name |-> channels[FindChannel(name)].tvg_name,
                        vc |-> vc]
            /\ ev' = <<"accepted", 0>>
            /\ UNCHANGED <<result, sessionState>>
    /\ UNCHANGED <<fetchVars, staleVars, mergeVars, refreshVars, tickVars, dbVars, parseVars, guideVars>>

\* lines 52-66: initializeStreamer (a failed login is logged and swallowed,
\* downloaders.ts lines 85-110), then joinVoiceChannel unless already there
\* (returns silently when the client is not ready or the join fails)
ExecSetup(loginOk, joinOk) ==
    /\ cont = None
    /\ exec.pc = "setup"
    /\ ready' = (ready \/ loginOk)
    /\ voice' = IF ready' /\ joinOk THEN exec.vc ELSE voice
    /\ exec' = [exec EXCEPT !.pc = "start"]
    /\ ev' = <<"setup", 0>>
    /\ UNCHANGED <<abortController, aborted, currentChannelEntry,
                   streamSpectatorMonitor, timers, streamAloneTime, pipes, stopQ,
                   cont, mustFire, nStartCalls, nCmds, sessionPipe, fired>>
    /\ UNCHANGED <<result, fetchVars, staleVars, mergeVars, refreshVars, tickVars, dbVars, parseVars, guideVars>>

\* lines 68-175: getProgrammeEntries and createStreamEmbed, then
\* startStreaming(channel) without await and the return of success.
\* guideOk = FALSE: one of the awaited steps before startStreaming throws
ExecStart(guideOk) ==
    /\ cont = None
    /\ exec.pc = "start"
    /\ nStartCalls < MaxStarts
    /\ exec' = NoCall
    /\ IF ~guideOk
       THEN /\ result' = StreamCatch("guide")
            /\ ev' = <<"streamError", 0>>
            /\ UNCHANGED <<aborted, stopQ, nStartCalls>>
       ELSE /\ result' = Settled("start", TRUE, "", exec.name)
            /\ ev' = <<"started", 0>>
            /\ IF ~ready
               THEN UNCHANGED <<aborted, stopQ, nStartCalls>>
               ELSE /\ StopStreamingCall(Entry("start", exec.name))
                    /\ nStartCalls' = nStartCalls + 1
    /\ UNCHANGED <<ready, voice, abortController, currentChannelEntry,
                   streamSpectatorMonitor, timers, streamAloneTime, pipes, cont,
                   mustFire, nCmds, sessionPipe, fired>>
    /\ UNCHANGED <<fetchVars, staleVars, mergeVars, refreshVars, tickVars, dbVars, parseVars, guideVars>>

\* executeRefresh(type) when the refresh it awaits throws, part_000 lines 369-372
RefreshFails(type) ==
    /\ opLog.op # "none"
    /\ type \in {"all", "channels", "programme"}
    /\ result' = RefreshCatch(type)
    /\ UNCHANGED <<vars, fetchVars, staleVars, mergeVars, refreshVars, tickVars,
                   execVars, dbVars, parseVars, guideVars>>

\* the database holds the two records, no source is configured
CommandInit ==
    /\ SessionNotStarted
    /\ FetchNotCalled
    /\ now = MaxClock
    /\ stale = "unknown"
    /\ programmes = <<>>
    /\ channels = <<EntryA, EntryNoId>>
    /\ channelsBefore = <<>>
    /\ playlistChannels = <<>>
    /\ RefreshNotStarted
    /\ NoCommand
    /\ NoReplacement
    /\ NothingParsed
    /\ NoGuide
    /\ TicksNotStarted

\* the start command and the callbacks of the session it starts
CommandNext ==
    \/ \E name \in RequestNames, vc \in VoiceTargets, dbOk \in BOOLEAN :
          ExecBegin(name, vc, dbOk)
    \/ \E loginOk \in BOOLEAN, joinOk \in BOOLEAN : ExecSetup(loginOk, joinOk)
    \/ \E guideOk \in BOOLEAN : ExecStart(guideOk)
    \/ StopReturn
    \/ \E ok \in BOOLEAN : ContinueStart(ok)
    \/ \E p \in PipeIds : \E kind \in ExitKinds : PipeExit(p, kind)
    \/ \E p \in PipeIds : \E ok \in BOOLEAN : PlaySettles(p, ok)

CommandSpec == CommandInit /\ [][CommandNext]_<<vars, execVars, resultVars>>

\* the two user-facing operations and what they return
ResultNext ==
    \/ Startup
    \/ \E type \in {"all", "channels", "programme", "other"} : Refresh(type)
    \/ \E type \in {"all", "channels", "programme"} : RefreshFails(type)
    \/ \E name \in RequestNames, vc \in VoiceTargets, dbOk \in BOOLEAN :
          ExecBegin(name, vc, dbOk)
    \/ \E loginOk \in BOOLEAN, joinOk \in BOOLEAN : ExecSetup(loginOk, joinOk)
    \/ \E guideOk \in BOOLEAN : ExecStart(guideOk)

ResultSpec ==
    CommandInit /\ [][ResultNext]_<<vars, staleVars, mergeVars, refreshVars,
                                    execVars, resultVars>>

\* ------------------------------------------------------ the record store
\* part_001 lines 255-316: two lowdb files.  Every function reloads the file
\* (await db.read()) before it uses or replaces db.data, and write() puts
\* db.data into the file; a refresh replaces a record set by clearX() and
\* then addX(rows) (index.ts lines 84-86, 104-105, 210-213).
Tables == {"channels", "programmes"}

Stored(t) == IF t = "channels" THEN channels ELSE programmes

\* the record sets a parse may yield for a table
RowsOf(t) ==
    IF t = "channels"
    THEN {<<GuideChannel>>, <<WithId>>, <<GuideChannel, WithoutId>>}
    ELSE {<<[created_at |-> c, stop_timestamp |-> MaxClock]>> : c \in {0, MaxClock}}

\* db.write() completes: the file holds rows
Store(t, rows) ==
    IF t = "channels"
    THEN channels' = rows /\ UNCHANGED programmes
    ELSE programmes' = rows /\ UNCHANGED channels

besidesDb ==
    <<vars, fetchVars, now, stale, channelsBefore, playlistChannels,
      refreshVars, tickVars, execVars, resultVars, parseVars, guideVars>>

\* a refresh has parsed rows for table t and calls clearX(): at "await db.read()"
BeginReplace(t, rows) ==
    /\ replace.pc = "idle"
    /\ Stored(t) # <<>>
    /\ rows # Stored(t)
    /\ replace' = [pc |-> "clearRead", table |-> t, old |-> Stored(t), new |-> rows]
    /\ UNCHANGED <<channels, programmes, reader, lastRead, besidesDb>>

\* clearX() behind its read: db.data = { rows: [] }, at "await db.write()"
ClearRead ==
    /\ replace.pc = "clearRead"
    /\ replace' = [replace EXCEPT !.pc = "clearWrite"]
    /\ UNCHANGED <<channels, programmes, reader, lastRead, besidesDb>>

\* the write of clearX() completes; addX(rows) is called: at "await db.read()"
ClearWritten ==
    /\ replace.pc = "clearWrite"
    /\ Store(replace.table, <<>>)
    /\ replace' = [replace EXCEPT !.pc = "addRead"]
    /\ UNCHANGED <<reader, lastRead, besidesDb>>

\* addX(rows) behind its read: db.data.rows = rows, at "await db.write()"
AddRead ==
    /\ replace.pc = "addRead"
    /\ replace' = [replace EXCEPT !.pc = "addWrite"]
    /\ UNCHANGED <<channels, programmes, reader, lastRead, besidesDb>>

\* the write of addX(rows) completes
AddWritten ==
    /\ replace.pc = "addWrite"
    /\ Store(replace.table, replace.new)
    /\ replace' = NoReplace
    /\ UNCHANGED <<reader, lastRead, besidesDb>>

\* getChannelEntries() / getProgrammeEntries() called: at "await db.read()"
ReadCall(t) ==
    /\ reader.pc = "idle"
    /\ reader' = [pc |-> "reading", table |-> t]
    /\ UNCHANGED <<channels, programmes, replace, lastRead, besidesDb>>

\* the read completes and the function returns db.data.rows
ReadReturns ==
    /\ reader.pc = "reading"
    /\ reader' = NoReader
    /\ lastRead' = [table |-> reader.table, rows |-> Stored(reader.table),
                    during |-> (replace.pc # "idle" /\ replace.table = reader.table),
                    old |-> replace.old, new |-> replace.new]
    /\ UNCHANGED <<channels, programmes, replace, besidesDb>>

\* both tables hold records
ReplaceInit ==
    /\ SessionNotStarted
    /\ FetchNotCalled
    /\ now = MaxClock
    /\ stale = "unknown"
    /\ programmes \in RowsOf("programmes")
    /\ channels \in RowsOf("channels")
    /\ channelsBefore = <<>>
    /\ playlistChannels = <<>>
    /\ RefreshNotStarted
    /\ NoCommand
    /\ NoReplacement
    /\ NothingParsed
    /\ NoGuide
    /\ TicksNotStarted

ReplaceNext ==
    \/ \E t \in Tables : \E rows \in RowsOf(t) : BeginReplace(t, rows)
    \/ ClearRead
    \/ ClearWritten
    \/ AddRead
    \/ AddWritten
    \/ \E t \in Tables : ReadCall(t)
    \/ ReadReturns

ReplaceSpec == ReplaceInit /\ [][ReplaceNext]_<<channels, programmes, dbVars>>

\* --------------------------------------------------- the playlist parser
\* parsers/playlist-parser.ts.  A line is its head, its attributes
\* key="value" in the order they are written, and the text behind its last
\* comma when it has one.
Attr(k, v) == [k |-> k, v |-> v]

StrictKeys ==
    <<"channelID", "tvg-chno", "tvg-name", "tvg-id", "tvg-logo", "group-title">>

\* the attribute block of a provider that writes the six attributes in the
\* order of ORIGINAL_PATTERN
StrictBlock(name, id, extra) ==
    <<Attr("channelID", "42"), Attr("tvg-chno", "7"), Attr("tvg-name", name),
      Attr("tvg-id", id), Attr("tvg-logo", extra[1]), Attr("group-title", extra[2])>>

NameValues == {"", "Name"}
IdValues == {"", "id1"}
ExtraValues == {<<"", "">>, <<"L", "G">>}

AttrLists ==
    {StrictBlock(n, i, e) : n \in NameValues, i \in IdValues, e \in ExtraValues}
    \cup {<<>>}
    \cup {<<Attr("tvg-id", i)>> : i \in IdValues}
    \cup {<<Attr("tvg-name", n)>> : n \in NameValues}
    \cup {<<Attr("tvg-id", i), Attr("tvg-name", n)>> : i \in IdValues, n \in NameValues}
    \cup {<<Attr("tvg-name", n), Attr("tvg-id", i)>> : i \in IdValues, n \in NameValues}
    \cup {<<Attr("tvg-id", ""), Attr("tvg-id", "id1")>>,
          <<Attr("tvg-logo", "L"), Attr("group-title", "G")>>,
          \* the block with one attribute missing, and with a foreign
          \* attribute between tvg-name and tvg-id
          SubSeq(StrictBlock("Name", "id1", <<"L", "G">>), 1, 5),
          <<Attr("channelID", "42"), Attr("tvg-chno", "7"), Attr("tvg-name", ""),
            Attr("catchup", "x"), Attr("tvg-id", ""), Attr("tvg-logo", ""),
            Attr("group-title", "")>>}

Titles == {"", " ", "Name", "Name (HD)", "(HD)"}

Lines ==
    {[head |-> h, attrs |-> a, comma |-> c, title |-> t] :
        h \in {"#EXTINF:", "#EXTGRP:"}, a \in AttrLists, c \in {TRUE}, t \in Titles}
    \cup {[head |-> h, attrs |-> a, comma |-> FALSE, title |-> ""] :
              h \in {"#EXTINF:", "#EXTGRP:"}, a \in AttrLists}

\* the lines that may follow: a url, a blank line, a comment
NextLines == {"http://x/y", " ", "#EXTVLCOPT:x"}

\* String.prototype.trim on the texts in use
Trim(t) == IF t = " " THEN "" ELSE t

\* channelName.replace(/\s+\([^)]+\)\s*$/, '') on the texts in use
WithoutQuality(t) == IF t = "Name (HD)" THEN "Name" ELSE t

\* line.match(/key="([^"]+)"/): the value of the first occurrence of the
\* attribute with a value that is not empty, "" when the match is null
FirstValue(l, k) ==
    LET at == {i \in DOMAIN l.attrs : l.attrs[i].k = k /\ l.attrs[i].v # ""}
    IN  IF at = {} THEN "" ELSE l.attrs[CHOOSE i \in at : \A j \in at : i <= j].v

\* line.substring(line.lastIndexOf(',') + 1).trim(), '' without a comma
ChannelName(l) == IF l.comma THEN Trim(l.title) ELSE ""

\* the position of the first attribute k behind position i, 0 when none
NextKey(attrs, i, k) ==
    LET at == {j \in DOMAIN attrs : j > i /\ attrs[j].k = k}
    IN  IF at = {} THEN 0 ELSE CHOOSE j \in at : \A m \in at : j <= m

RECURSIVE Chain(_, _, _)
\* the lazy groups of ORIGINAL_PATTERN: with key n matched at position i,
\* the positions of the keys n..6, <<>> when the pattern cannot be completed
Chain(attrs, i, n) ==
    IF n = Len(StrictKeys)
    THEN <<i>>
    ELSE LET j == NextKey(attrs, i, StrictKeys[n + 1])
         IN  IF j = 0 \/ Chain(attrs, j, n + 1) = <<>>
             THEN <<>>
             ELSE <<i>> \o Chain(attrs, j, n + 1)

\* the greedy .* in front of channelID: the last channelID from which the
\* pattern can be completed
StrictMatch(l) ==
    LET starts == {i \in DOMAIN l.attrs :
                      l.attrs[i].k = StrictKeys[1] /\ Chain(l.attrs, i, 1) # <<>>}
    IN  IF l.head # "#EXTINF:" \/ starts = {}
        THEN <<>>
        ELSE Chain(l.attrs, CHOOSE i \in starts : \A j \in starts : j <= i, 1)

\* the text group n captured: the value of its attribute, and when other
\* attributes stand before the next key of the pattern, everything up to it
Captured(l, at, n) ==
    IF n = Len(StrictKeys) \/ at[n + 1] = at[n] + 1
    THEN l.attrs[at[n]].v
    ELSE l.attrs[at[n]].v \o "\" ..."

\* parseOriginalFormat, lines 26-46; <<>> is null
parseOriginalFormat(l) ==
    LET at == StrictMatch(l)
    IN  IF at = <<>>
        THEN <<>>
        ELSE <<[tvg_id |-> Captured(l, at, 4), tvg_name |-> Captured(l, at, 3),
                url |-> "", group_title |-> Captured(l, at, 6),
                tvg_logo |-> Captured(l, at, 5)]>>

\* mutant: the text behind the comma is not used as the name
AlternativeWithoutTitle(l) ==
    IF l.head = "#EXTINF:" /\ (FirstValue(l, "tvg-id") # "" \/ FirstValue(l, "tvg-name") # "")
    THEN <<[tvg_id |-> FirstValue(l, "tvg-id"),
            tvg_name |-> IF FirstValue(l, "tvg-name") # ""
                         THEN FirstValue(l, "tvg-name") ELSE FirstValue(l, "tvg-id"),
            url |-> "", group_title |-> FirstValue(l, "group-title"),
            tvg_logo |-> FirstValue(l, "tvg-logo")]>>
    ELSE <<>>

\* parseAlternativeFormat, lines 54-97
parseAlternativeFormat(l) ==
    LET tvg_id == FirstValue(l, "tvg-id")
        tvg_name == IF FirstValue(l, "tvg-name") # ""
                    THEN FirstValue(l, "tvg-name")
                    ELSE IF ChannelName(l) # "" THEN ChannelName(l) ELSE tvg_id
    IN  IF l.head # "#EXTINF:"
        THEN <<>>
        ELSE IF tvg_id # "" \/ tvg_name # ""
        THEN <<[tvg_id |-> tvg_id, tvg_name |-> tvg_name, url |-> "",
                group_title |-> FirstValue(l, "group-title"),
                tvg_logo |-> FirstValue(l, "tvg-logo")]>>
        ELSE <<>>

\* parseFlexibleFormat, lines 106-150
parseFlexibleFormat(l) ==
    LET tvgId == FirstValue(l, "tvg-id")
        channelName == WithoutQuality(ChannelName(l))
        tvgName == IF channelName # "" THEN channelName ELSE tvgId
    IN  IF l.head # "#EXTINF:"
        THEN <<>>
        ELSE IF tvgName # ""
        THEN <<[tvg_id |-> tvgId, tvg_name |-> tvgName, url |-> "",
                group_title |-> FirstValue(l, "group-title"),
                tvg_logo |-> FirstValue(l, "tvg-logo")]>>
        ELSE <<>>

\* a || b on ChannelEntry | null: an object is truthy
OrElse(a, b) == IF a # <<>> THEN a ELSE b

\* mutant: the lenient strategy is tried first
LenientFirst(l) ==
    OrElse(parseFlexibleFormat(l), OrElse(parseOriginalFormat(l), parseAlternativeFormat(l)))

\* fromPlaylistLine, lines 13-18
fromPlaylistLine(l) ==
    OrElse(parseOriginalFormat(l), OrElse(parseAlternativeFormat(l), parseFlexibleFormat(l)))

\* one line of the playlist is read, index.ts lines 171-173
ReadLine ==
    /\ parsePc = "line"
    /\ parsePc' = "next"
    /\ currentChannel' = IF line.head = "#EXTINF:" THEN fromPlaylistLine(line) ELSE <<>>
    /\ UNCHANGED <<line, extracted>>
    /\ UNCHANGED <<vars, fetchVars, staleVars, mergeVars, refreshVars, tickVars,
                   execVars, resultVars, dbVars, guideVars>>

\* the line behind it is read, index.ts lines 172-179
ReadNext(u) ==
    /\ parsePc = "next"
    /\ parsePc' = "done"
    /\ IF currentChannel # <<>> /\ u # "#EXTVLCOPT:x" /\ Trim(u) # ""
       THEN /\ extracted' = <<[currentChannel[1] EXCEPT !.url = Trim(u)]>>
            /\ currentChannel' = <<>>
       ELSE UNCHANGED <<extracted, currentChannel>>
    /\ UNCHANGED line
    /\ UNCHANGED <<vars, fetchVars, staleVars, mergeVars, refreshVars, tickVars,
                   execVars, resultVars, dbVars, guideVars>>

\* a playlist line is about to be read
ParseInit ==
    /\ SessionNotStarted
    /\ FetchNotCalled
    /\ NoProgrammes
    /\ NoChannels
    /\ RefreshNotStarted
    /\ NoCommand
    /\ NoReplacement
    /\ TicksNotStarted
    /\ NoGuide
    /\ line \in Lines
    /\ currentChannel = <<>>
    /\ extracted = <<>>
    /\ parsePc = "line"

ParseNext == ReadLine \/ \E u \in NextLines : ReadNext(u)

ParseSpec == ParseInit /\ [][ParseNext]_parseVars

\* -------------------------------------------------------------- parseDate
\* part_002 lines 15-48.  A date string is the characters of its parts
\* around the blank: the timestamp and the offset (<<>> when there is none).
\* Times are in seconds; the code's milliseconds are always whole seconds.
NaN == -1

DigitOf(c) ==
    CASE c = "0" -> 0 [] c = "1" -> 1 [] c = "2" -> 2 [] c = "3" -> 3 [] c = "4" -> 4
      [] c = "5" -> 5 [] c = "6" -> 6 [] c = "7" -> 7 [] c = "8" -> 8 [] c = "9" -> 9
      [] OTHER -> NaN

\* String.prototype.slice(a, b) with 0 <= a <= b
Slice(cs, a, b) ==
    SubSeq(cs, a + 1, IF b < Len(cs) THEN b ELSE Len(cs))

RECURSIVE ParseDigits(_, _, _)
\* the value of the digits of cs from position i on, up to the first
\* character that is no digit
ParseDigits(cs, i, acc) ==
    IF i > Len(cs) \/ DigitOf(cs[i]) = NaN
    THEN acc
    ELSE ParseDigits(cs, i + 1, acc * 10 + DigitOf(cs[i]))

\* parseInt on characters without sign or blanks
ParseInt(cs) ==
    IF cs = <<>> \/ DigitOf(cs[1]) = NaN THEN NaN ELSE ParseDigits(cs, 1, 0)

\* the number of days from 1970-01-01 to the first day of month m (1..12) of year y
DaysFromCivil(y, m) ==
    LET yy == IF m <= 2 THEN y - 1 ELSE y
        era == yy \div 400
        yoe == yy - era * 400
        doy == (153 * (IF m > 2 THEN m - 3 ELSE m + 9) + 2) \div 5
        doe == yoe * 365 + yoe \div 4 - yoe \div 100 + doy
    IN  era * 146097 + doe - 719468

\* Date.UTC(year, month, day, hour, minute, second) in seconds, month from 0;
\* a month outside 0..11 carries into the year, a day outside the month
\* into the next months
DateUTC(year, month, day, hour, minute, second) ==
    (DaysFromCivil(year + month \div 12, (month % 12) + 1) + (day - 1)) * 86400
        + hour * 3600 + minute * 60 + second

\* mutant: the offset is added
OffsetAdded(utc, offset) == utc + offset

\* new Date(date.getTime() - offset), line 47
OffsetApplied(utc, offset) == utc - offset

\* parseDate(dateString): a Date, an Invalid Date, or the Error of line 24
parseDate(str) ==
    LET timestamp == str.ts
        offsetPart == str.off
        year == ParseInt(Slice(timestamp, 0, 4))
        month == ParseInt(Slice(timestamp, 4, 6))
        day == ParseInt(Slice(timestamp, 6, 8))
        hour == ParseInt(Slice(timestamp, 8, 10))
        minute == ParseInt(Slice(timestamp, 10, 12))
        second == ParseInt(Slice(timestamp, 12, 14))
        offsetSign == IF offsetPart[1] = "+" THEN 1 ELSE -1
        offsetHour == ParseInt(IF Slice(offsetPart, 1, 3) = <<>> THEN <<"0">>
                               ELSE Slice(offsetPart, 1, 3))
        offsetMinute == ParseInt(IF Slice(offsetPart, 3, 5) = <<>> THEN <<"0">>
                                 ELSE Slice(offsetPart, 3, 5))
        offset == IF offsetPart = <<>> THEN 0
                  ELSE offsetSign * (offsetHour * 60 + offsetMinute) * 60
    IN  IF timestamp = <<>> \/ Len(timestamp) < 14
        THEN [kind |-> "throws", time |-> 0]
        ELSE IF NaN \in {year, month, day, hour, minute, second}
                \/ (offsetPart # <<>> /\ NaN \in {offsetHour, offsetMinute})
        THEN [kind |-> "invalid", time |-> 0]
        ELSE [kind |-> "date",
              time |-> OffsetApplied(DateUTC(year, month - 1, day, hour, minute, second),
                                     offset)]

\* Date.prototype.toISOString: the fields of the instant in UTC
toISOString(t) ==
    LET days == t \div 86400
        z == days + 719468
        era == z \div 146097
        doe == z - era * 146097
        yoe == (doe - doe \div 1460 + doe \div 36524 - doe \div 146096) \div 365
        doy == doe - (365 * yoe + yoe \div 4 - yoe \div 100)
        mp == (5 * doy + 2) \div 153
        m == IF mp < 10 THEN mp + 3 ELSE mp - 9
    IN  [year |-> yoe + era * 400 + (IF m <= 2 THEN 1 ELSE 0), month |-> m,
         day |-> doy - (153 * mp + 2) \div 5 + 1,
         hour |-> (t % 86400) \div 3600, minute |-> (t % 3600) \div 60,
         second |-> t % 60]

\* the timestamps and offsets a guide may carry: around the turn of the
\* year and the leap day
Days ==
    { <<"2","0","2","3","1","2","3","1">>, <<"2","0","2","4","0","1","0","1">>,
      <<"2","0","2","4","0","2","2","8">>, <<"2","0","2","4","0","2","2","9">>,
      <<"2","0","2","4","0","3","0","1">>, <<"2","0","2","3","0","3","0","1">> }

Clocks ==
    { <<"0","0","0","0","0","0">>, <<"0","0","3","0","0","0">>, <<"1","2","0","0","0","0">>,
      <<"2","3","5","9","5","9">> }

Offsets ==
    { <<>>, <<"+","0","2","0","0">>, <<"-","0","5","3","0">>, <<"+","0","0","0","0">>,
      <<"-","1","2","0","0">>, <<"+","1","4","0","0">> }

DateStrings == {[ts |-> d \o c, off |-> o] : d \in Days, c \in Clocks, o \in Offsets}

\* strings that are no XMLTV date
BadDateStrings ==
    { [ts |-> <<"2","0","2","4">>, off |-> <<>>],
      [ts |-> <<>>, off |-> <<>>],
      [ts |-> <<"n","o","t","-","a","-","d","a","t","e","-","a","t","-","a","l","l">>,
       off |-> <<>>],
      [ts |-> <<"2","0","2","4","0","1","0","1","1","2","0","0","0","0">>,
       off |-> <<"+","x","x","0","0">>] }

\* parseDate is called
ParseDate ==
    /\ guidePc = "date"
    /\ guidePc' = "parsed"
    /\ parsed' = parseDate(dateString)
    /\ UNCHANGED <<dateString, doc, output>>
    /\ UNCHANGED <<vars, fetchVars, staleVars, mergeVars, refreshVars, tickVars,
                   execVars, resultVars, dbVars, parseVars>>

\* the caller takes the result, part_003 lines 172-183: toISOString throws
\* on an Invalid Date
UseDate ==
    /\ guidePc = "parsed"
    /\ guidePc' = "used"
    /\ parsed' = IF parsed.kind = "invalid" THEN [parsed EXCEPT !.kind = "throws"]
                 ELSE parsed
    /\ UNCHANGED <<dateString, doc, output>>
    /\ UNCHANGED <<vars, fetchVars, staleVars, mergeVars, refreshVars, tickVars,
                   execVars, resultVars, dbVars, parseVars>>

DateInit ==
    /\ SessionNotStarted
    /\ FetchNotCalled
    /\ NoProgrammes
    /\ NoChannels
    /\ RefreshNotStarted
    /\ NoCommand
    /\ NoReplacement
    /\ NothingParsed
    /\ TicksNotStarted
    /\ dateString \in DateStrings \cup BadDateStrings
    /\ parsed = NotParsed
    /\ doc = NoDoc
    /\ output = NoOutput
    /\ guidePc = "date"

DateNext == ParseDate \/ UseDate

DateSpec == DateInit /\ [][DateNext]_guideVars

\* ------------------------------------------------------- extractXMLTVData
\* part_003 lines 23-198.  xml2js gives an element its attributes under `$`
\* and no `$` at all when the element has none; an attribute that is not
\* written reads as undefined.
MaxNodes == 2                 \* channel elements, programme elements of a guide

Undefined == "<undefined>"
NoDateAttr == [ts |-> <<Undefined>>, off |-> <<>>]

Noon == [ts |-> <<"2","0","2","4","0","1","0","1","1","2","0","0","0","0">>, off |-> <<>>]
OneOClock == [ts |-> <<"2","0","2","4","0","1","0","1","1","3","0","0","0","0">>, off |-> <<>>]
NoonPlusTwo == [Noon EXCEPT !.off = <<"+","0","2","0","0">>]
ShortDate == [ts |-> <<"2","0","2","4">>, off |-> <<>>]
NoDigits == [ts |-> <<"x","x","x","x","x","x","x","x","x","x","x","x","x","x">>, off |-> <<>>]

\* <channel> elements: without attributes, with another attribute only,
\* with an id
ChannelNodes ==
    { [attrs |-> FALSE, id |-> Undefined, name |-> "N"],
      [attrs |-> TRUE, id |-> Undefined, name |-> "N"],
      [attrs |-> TRUE, id |-> "c1", name |-> "N"],
      [attrs |-> TRUE, id |-> "c2", name |-> "M"] }

\* <programme> elements
ProgrammeNodes ==
    { [attrs |-> FALSE, channel |-> Undefined, start |-> NoDateAttr, stop |-> NoDateAttr] }
    \cup { [attrs |-> TRUE, channel |-> "c1", start |-> t[1], stop |-> t[2]] :
              t \in { <<Noon, OneOClock>>, <<OneOClock, Noon>>, <<Noon, Noon>>,
                      <<Noon, NoonPlusTwo>>, <<NoDateAttr, OneOClock>>,
                      <<Noon, NoDateAttr>>, <<ShortDate, OneOClock>>,
                      <<Noon, NoDigits>> } }

UpTo(S, n) == UNION {[1..k -> S] : k \in 0..n}

\* a step of the two forEach loops: the record, or nothing when the
\* element threw
NoRecord == <<>>

\* extractChannelData(channel), lines 95-131; channel.$.id throws when the
\* element has no `$`
extractChannelData(channel) ==
    IF ~channel.attrs
    THEN NoRecord
    ELSE <<[tvg_id |-> channel.id, tvg_name |-> channel.name, url |-> "",
            group_title |-> "", tvg_logo |-> ""]>>

\* buildProgrammeEntry(programme, channelNameMap), lines 141-198, without
\* the text fields: programme.$.channel throws without `$`, line 167 when
\* start or stop is missing, parseDate on a short string, toISOString on
\* an Invalid Date
buildProgrammeEntry(programme) ==
    LET start == parseDate(programme.start)
        stop == parseDate(programme.stop)
    IN  IF ~programme.attrs
           \/ programme.start = NoDateAttr \/ programme.stop = NoDateAttr
           \/ start.kind # "date" \/ stop.kind # "date"
        THEN NoRecord
        ELSE <<[start |-> toISOString(start.time), stop |-> toISOString(stop.time),
                start_timestamp |-> start.time, stop_timestamp |-> stop.time,
                channel |-> programme.channel]>>

RECURSIVE Pushed(_, _, _)
\* forEach(node => { try { output.push(F(node)) } catch { log } })
Pushed(nodes, i, kind) ==
    IF i = 0
    THEN <<>>
    ELSE Pushed(nodes, i - 1, kind)
         \o (IF kind = "channel" THEN extractChannelData(nodes[i])
             ELSE buildProgrammeEntry(nodes[i]))

\* extractXMLTVData(filePath), lines 23-87; a file that is no XMLTV
\* document reads as one without elements
extractXMLTVData ==
    /\ guidePc = "doc"
    /\ guidePc' = "extracted"
    /\ output' = [channels |-> Pushed(doc.channel, Len(doc.channel), "channel"),
                  programmes |-> Pushed(doc.programme, Len(doc.programme), "programme")]
    /\ UNCHANGED <<dateString, parsed, doc, channels, programmes>>
    /\ UNCHANGED <<vars, fetchVars, now, stale, channelsBefore, playlistChannels,
                   refreshVars, tickVars, execVars, resultVars, dbVars, parseVars>>

\* populateDatabaseFromXMLTV after extractXMLTVData, index.ts lines 83-119
StoreGuide ==
    /\ guidePc = "extracted"
    /\ guidePc' = "stored"
    /\ channels' = IF Len(output.channels) > 0 THEN output.channels ELSE channels
    /\ programmes' = IF Len(output.programmes) > 0 THEN output.programmes ELSE programmes
    /\ output' = NoOutput
    /\ UNCHANGED <<dateString, parsed, doc>>
    /\ UNCHANGED <<vars, fetchVars, now, stale, channelsBefore, playlistChannels,
                   refreshVars, tickVars, execVars, resultVars, dbVars, parseVars>>

\* a guide file is in the cache, the database holds what an earlier import
\* left
GuideInit ==
    /\ SessionNotStarted
    /\ FetchNotCalled
    /\ RefreshNotStarted
    /\ NoCommand
    /\ NoReplacement
    /\ NothingParsed
    /\ TicksNotStarted
    /\ now = 0
    /\ stale = "unknown"
    /\ programmes = <<>>
    /\ channels \in {<<>>, extractChannelData(CHOOSE c \in ChannelNodes : c.id = "c1")}
    /\ channelsBefore = <<>>
    /\ playlistChannels = <<>>
    /\ dateString = NoDate
    /\ parsed = NotParsed
    /\ doc \in [channel : UpTo(ChannelNodes, MaxNodes), programme : UpTo(ProgrammeNodes, MaxNodes)]
    /\ output = NoOutput
    /\ guidePc = "doc"

GuideNext == extractXMLTVData \/ StoreGuide

GuideSpec == GuideInit /\ [][GuideNext]_<<guideVars, channels, programmes>>

\* ------------------------------------------------------------- the claims
StopReturned == ev[1] = "stopReturn"

\* the session state: a channel is current, its pipeline is live and being
\* played, and no stop is in progress
Streaming ==
    /\ currentChannelEntry # NoChannel
    /\ sessionPipe # {}
    /\ sessionPipe \subseteq LivePipes
    /\ \A p \in sessionPipe : pipes[p].playing
    /\ stopQ = <<>>
    /\ cont = None

Idle == currentChannelEntry = NoChannel /\ LivePipes = {}

\* C1: when start(B) is called while the pipeline of another channel A is
\* live, A is cancelled when B's pipeline is about to be built, and once
\* every callback of A has run and nothing else was requested, B is the
\* current channel and B's pipeline is the only live one.
C1_SwitchLeavesOneSession ==
    /\ (cont.k = "start" /\ cont.cur # cont.ch) => cont.sess \cap LivePipes = {}
    /\ \A b \in PipeIds :
           ( /\ pipes[b].after # {}
             /\ pipes[b].after \cap PipeIds = {}
             /\ pipes[b].running /\ pipes[b].playing
             /\ stopQ = <<>> /\ cont = None
             /\ nCmds = 0 /\ fired = 0 )
           => (currentChannelEntry = pipes[b].ch /\ LivePipes = {b})

\* C2: in every reachable state at most one media pipeline is live.
C2_AtMostOneLivePipeline == Cardinality(LivePipes) <= 1

\* C3: when a stop() that was called on an active session returns, the
\* pipeline that was live at the call has been signalled to cancel, the
\* current channel and the monitor handle are null and the accumulator is 0.
C3_StopClearsActiveSession ==
    (StopReturned /\ ev[2].sess # {}) =>
        /\ ev[2].sess \cap LivePipes = {}
        /\ currentChannelEntry = NoChannel
        /\ streamSpectatorMonitor = NoTimer
        /\ timers = {}
        /\ streamAloneTime = 0

C3_Witness ==
    /\ StopReturned /\ ev[2].k = "stop" /\ ev[2].sess # {}
    /\ \A p \in ev[2].sess : p \in PipeIds /\ pipes[p].running /\ p \in aborted

\* C4: a stop() called while no channel is current changes nothing: when it
\* returns the current channel, the monitor, the accumulator and the live
\* pipelines are what they were, also when a start() is in progress.
C4_IdleStopIsNoOp ==
    [][(stopQ # <<>> /\ stopQ' = Tail(stopQ) /\ Head(stopQ).k = "stop"
            /\ Head(stopQ).cur = NoChannel)
        => /\ UNCHANGED <<currentChannelEntry, streamSpectatorMonitor,
                          timers, streamAloneTime>>
           /\ LivePipes' = LivePipes]_vars

\* C5: the idle timeout fires at most once per monitor: after the poll that
\* reaches the threshold no further poll of that timer runs, stop() is
\* invoked once and leave() runs only when that stop() has completed.
LeaveEntries == {i \in 1..Len(stopQ) : stopQ[i].k = "leave"}

C5_TimeoutFiresOnce ==
    /\ fired <= 1
    /\ Cardinality(LeaveEntries) + (IF cont.k = "leave" THEN 1 ELSE 0) <= 1
    /\ (fired = 1 /\ timers # {}) => (mustFire > 0 /\ LeaveEntries # {})
    /\ cont.k = "leave" =>
          (currentChannelEntry = NoChannel /\ timers = {} /\ streamAloneTime = 0)

C5_Witness ==
    /\ fired = 1 /\ ev[1] = "left" /\ voice = NoVoice
    /\ nCmds = 0 /\ timers = {} /\ stopQ = <<>>

\* C6: a poll that counts zero non-bot members besides the streaming
\* account adds 10 s to the accumulator; a poll that counts any other
\* number sets it to 0; bots never count.
C6_PollAccumulates ==
    [][ev'[1] = "poll" =>
         /\ (ev'[2] = 0 => streamAloneTime' = streamAloneTime + PollSeconds)
         /\ (ev'[2] # 0 => streamAloneTime' = 0)
         /\ (streamAloneTime' > streamAloneTime => ev'[2] = 0)]_vars

C6_Witness == ev[1] = "poll" /\ ev[2] = 0 /\ streamAloneTime = 2 * PollSeconds

\* C7: whenever no channel is current and no pipeline is live, no spectator
\* timer is armed.
C7_NoMonitorWhenIdle == Idle => (timers = {} /\ streamSpectatorMonitor = NoTimer)

C7_Witness ==
    /\ Idle /\ ev[1] = "resolved" /\ PipeIds = {} /\ stopQ = <<>>
    /\ nStartCalls > 0 /\ nCmds = 0 /\ fired = 0

\* C8: the handler of an "end" event and of an "error" event without the
\* forced-termination signature invokes stop(); the handler of an "error"
\* event with the signature does not; a stop() that returns leaves the
\* session idle.
C8_HandlersStop ==
    [][/\ ev'[1] \in {"end", "error"} =>
             (Len(stopQ') = Len(stopQ) + 1
                 /\ SubSeq(stopQ', 1, Len(stopQ)) = stopQ
                 /\ abortController \in aborted')
       /\ ev'[1] = "error255" => UNCHANGED <<stopQ, aborted>>
       /\ ev'[1] = "stopReturn" =>
             (currentChannelEntry' = NoChannel /\ timers' = {})]_vars

C8_Witness ==
    /\ ev[1] = "end" /\ Len(stopQ) = 1 /\ stopQ[1].k = "none"
    /\ stopQ[1].sess # {} /\ abortController \in aborted
    /\ currentChannelEntry # NoChannel

\* C9: leave() disconnects only when the stop() it called has completed;
\* when leave() returns no channel is current, the pipeline of the session
\* it was called on is cancelled and there is no voice connection.
C9_LeaveStopsThenDisconnects ==
    /\ cont.k = "leaveVoice" =>
          (currentChannelEntry = NoChannel /\ timers = {}
              /\ cont.sess \cap LivePipes = {})
    /\ ev[1] = "left" =>
          (voice = NoVoice /\ currentChannelEntry = NoChannel
              /\ timers = {} /\ ev[2] \cap LivePipes = {})
    /\ ev[1] = "leaveCall" => Len(stopQ) > 0

C9_Witness ==
    /\ ev[1] = "left" /\ ev[2] # {} /\ nCmds = 1
    /\ \A p \in ev[2] : p \in PipeIds /\ pipes[p].running

\* C10: while the session is Streaming, a step that is neither a stop, leave
\* or start request nor an end, error or settle callback of a pipeline, and
\* in which no poll sees the channel without viewers, leaves it Streaming.
Request == ev[1] \in {"start", "stop", "leaveCall", "left"}
PipeEvent == ev[1] \in ExitKinds \cup {"resolved", "rejected"}
EmptyPoll == ev[1] = "poll" /\ ev[2] = 0

C10_StreamingHangs ==
    [][(Streaming /\ ~Request' /\ ~PipeEvent' /\ ~EmptyPoll') => Streaming']_vars

C10_Witness ==
    /\ Streaming /\ ev[1] = "poll" /\ ev[2] = 1 /\ streamAloneTime = 0
    /\ voice # NoVoice

\* the passes of the loop that were started, and what each attempt ended in
Attempts == {i \in DOMAIN trail : trail[i][1] = "attempt"}
Failed == {i \in DOMAIN trail : trail[i][1] = "outcome" /\ trail[i][3] # "data"}

\* C11: a call of fetchWithRetry makes at most 3 network attempts and then
\* returns, whatever each attempt ends in; an attempt that fails with an
\* error of any class is followed by the attempt with the next number.
C11_AtMostThreeAttempts ==
    /\ attempt <= maxRetries
    /\ Cardinality(Attempts) <= maxRetries
    /\ \A i \in Attempts : trail[i][2] = Cardinality({j \in Attempts : j <= i})
    /\ \A i \in Failed : trail[i][2] = Cardinality({j \in Attempts : j < i})
    /\ Len(trail) <= 3 * maxRetries
    /\ fetchPc \notin {"idle", "done"} => ENABLED FetchNext
    /\ (fetchPc = "done" /\ fetchResult # NetBlob) =>
          (Cardinality(Failed) = maxRetries)

C11_Witness ==
    /\ fetchPc = "done" /\ Cardinality(Attempts) = maxRetries
    /\ \E i \in Failed : trail[i][3] = "other" /\ trail[i][2] = 1
    /\ \E i \in Failed : trail[i][3] = "empty" /\ trail[i][2] = 2
    /\ \E i \in Failed : trail[i][3] = "timeout" /\ trail[i][2] = 3

\* C12: every retry is preceded by its backoff wait: 5 s before the 2nd
\* attempt and 10 s before the 3rd, whatever the attempt before ended in.
C12_BackoffBeforeEveryRetry ==
    \A i \in Attempts :
        trail[i][2] > 1 =>
            /\ trail[i - 1][1] = "sleep"
            /\ trail[i - 1][2] = (IF trail[i][2] = 2 THEN 5 ELSE 10)

\* C13: when all 3 attempts have failed, fetchWithRetry returns the blob
\* cached under the key if there is one and null only if there is none,
\* whatever the attempts ended in.
C13_FallbackToCache ==
    (fetchPc = "done" /\ Cardinality(Failed) = maxRetries) =>
        fetchResult = cacheBlob

\* C14: when fetchWithRetry returns bytes that came from the network, the
\* cache file of that key holds exactly these bytes.
C14_CachedBeforeReturned ==
    (fetchPc = "done" /\ fetchResult = NetBlob) => cacheBlob = NetBlob

\* C15: isProgrammeDataStale returns true exactly when there is no
\* programme record, or the newest record was created more than
\* (REFRESH_IPTV - 3) minutes ago, or no record has a stop time that is not
\* yet past; in every other case it returns false.
NewestCreated == CHOOSE c \in {programmes[i].created_at : i \in 1..Len(programmes)} :
                     \A j \in 1..Len(programmes) : programmes[j].created_at <= c

HasFutureStop ==
    \E i \in 1..Len(programmes) :
        programmes[i].stop_timestamp # NoStop /\ programmes[i].stop_timestamp >= now

C15_StaleExactly ==
    stale # "unknown" =>
        (stale = "true" <=> ( \/ Len(programmes) = 0
                     \/ (now - NewestCreated) > (REFRESH_IPTV - 3)
                     \/ ~HasFutureStop ))

\* C17: when a playlist entry's id matches an existing channel record, the
\* merge keeps the id and the display name of that record and overwrites
\* only url, group and logo: the url is the one of the last matching entry,
\* group and logo are the last non-empty ones of the matching entries, or
\* the old ones when every matching entry leaves them empty.
Matches(id) == {i \in 1..Len(playlistChannels) : playlistChannels[i].tvg_id = id}

Last(S) == CHOOSE i \in S : \A j \in S : j <= i

LastGiven(old, id, field) ==
    LET S == {i \in Matches(id) : playlistChannels[i][field] # ""}
    IN  IF S = {} THEN old[field] ELSE playlistChannels[Last(S)][field]

C17_MatchKeepsIdAndName ==
    \A e \in 1..Len(channelsBefore) :
        LET old == channelsBefore[e]
        IN  Matches(old.tvg_id) # {} =>
                \E r \in 1..Len(channels) :
                    channels[r] = [tvg_id |-> old.tvg_id,
                                   tvg_name |-> old.tvg_name,
                                   url |-> playlistChannels[Last(Matches(old.tvg_id))].url,
                                   group_title |-> LastGiven(old, old.tvg_id, "group_title"),
                                   tvg_logo |-> LastGiven(old, old.tvg_id, "tvg_logo")]

\* existing {id: c1, name: N} merged with a playlist entry {id: c1, url: U}
\* of another name has given {id: c1, name: N, url: U}
C17_Witness ==
    /\ \E e \in 1..Len(channelsBefore) :
          /\ channelsBefore[e].tvg_id = "c1"
          /\ channelsBefore[e].tvg_name = "N"
          /\ channelsBefore[e].url = "U0"
    /\ Len(playlistChannels) = 1
    /\ playlistChannels[1].tvg_id = "c1"
    /\ playlistChannels[1].tvg_name = "P"
    /\ playlistChannels[1].url = "U"
    /\ \E r \in 1..Len(channels) :
          /\ channels[r].tvg_id = "c1"
          /\ channels[r].tvg_name = "N"
          /\ channels[r].url = "U"

\* C18: a merge never downgrades a known display name: for every channel id
\* whose record has a non-empty name before the merge, there is a record of
\* that id with a non-empty name after it, whatever the playlist holds.
C18_NameNeverDowngraded ==
    \A e \in 1..Len(channelsBefore) :
        channelsBefore[e].tvg_name # "" =>
            \E r \in 1..Len(channels) :
                /\ channels[r].tvg_id = channelsBefore[e].tvg_id
                /\ channels[r].tvg_name # ""

\* C16: a forced refresh (a tick of the scheduler, or a manual refresh of
\* any kind) calls the fetcher for every source it covers, whatever
\* isProgrammeDataStale returned and whether or not a cached file existed.
Covers(op) ==
    CASE op = "tick" -> Sources
      [] op = "all" -> sources
      [] op = "channels" -> {"playlist"}
      [] op = "programme" -> {"xmltv"}
      [] OTHER -> {}

C19_ChannelsOnlyOrBoth ==
    /\ opLog.op = "channels" => programmes = opLog.programmesThen
    /\ opLog.op = "all" =>
          /\ sources \subseteq opLog.fetched
          /\ \A g \in Guides, pl \in PlaylistFeed :
                ( /\ opLog.guide = <<g>>
                  /\ g.channels # <<>>
                  /\ g.stops # <<>>
                  /\ opLog.playlist = <<pl>> )
                => /\ programmes = Stamp(g.stops)
                   /\ channels = Synchronized(g.channels, pl)

\* a refresh of the channels alone has changed the channel records next to
\* programme records that are still the same
C19_Witness ==
    /\ opLog.op = "channels"
    /\ opLog.playlist # <<>>
    /\ channels # opLog.channelsThen
    /\ programmes # <<>>
    /\ programmes = opLog.programmesThen

\* C20: after any sequence of schedule and stop calls at most one refresh
\* interval is armed, and it is the one refreshIntervalId names: scheduling
\* cancels the previous one, and after stopIPTVRefresh none is armed and no
\* tick can fire.
C20_AtMostOneInterval ==
    /\ Cardinality(intervals) <= 1
    /\ refreshIntervalId # NoInterval => intervals = {refreshIntervalId}
    /\ refreshIntervalId = NoInterval => intervals = {} /\ ~ENABLED IntervalTick

\* scheduled twice, a tick has run, then stopped
C20_Witness ==
    /\ nSchedules = MaxSchedules
    /\ opLog.op = "tick"
    /\ refreshIntervalId = NoInterval
    /\ intervals = {}

\* C21: two callbacks of the refresh interval never run at the same time:
\* at most one is in progress in every state.
C21_TicksNeverOverlap == Cardinality(DOMAIN running) <= 1

\* C22: a callback whose refresh throws leaves the timer as it was, and
\* while a timer is armed the next callback can begin and go through its
\* refresh.
C22_FailedTickKeepsTimer ==
    /\ [][tickLog'[1] = "failed" /\ running' # running
             => UNCHANGED <<refreshIntervalId, intervals>>]_<<refreshVars, tickVars>>
    /\ []((intervals # {} /\ nTicks < MaxTicks) => ENABLED TickBegins)
    /\ [](\A j \in DOMAIN running : running[j] = "sync" => ENABLED TickSync(j))

\* the first callback failed; the timer is still armed and the second
\* callback has since begun and synchronized the playlist
C22_Witness ==
    /\ tickLog = <<"failed", 1>>
    /\ intervals # {}
    /\ DOMAIN running = {2}
    /\ running[2] = "populate"

\* C23: a manual refresh of any kind never creates, cancels or replaces the
\* refresh timer: the handle and the armed timers are the same before and
\* after executeRefresh.
C23_ManualRefreshKeepsTimer ==
    [][opLog'.op \in {"all", "channels", "programme", "other"}
         => UNCHANGED <<refreshIntervalId, intervals, nSchedules>>]_refreshVars

\* the timer armed at startup is still the armed one after refresh("all")
C23_Witness ==
    /\ opLog.op = "all"
    /\ opLog.fetched # {}
    /\ nSchedules = 1
    /\ refreshIntervalId = 1
    /\ intervals = {1}

\* C24: executeStreamChannel and executeRefresh never reject: whatever
\* fails inside them, the caller gets a record with a boolean success and a
\* message, and every failure carries a message that is not empty.
C24_AlwaysStructuredResult ==
    /\ result.outcome = "resolved"
    /\ result.success \in BOOLEAN
    /\ (result.of # "none" /\ ~result.success) => result.message # ""

\* after the import at startup, a start was accepted, logged in, and then
\* failed before startStreaming
C24_Witness ==
    /\ result = StreamCatch("guide")
    /\ ev[1] = "streamError"
    /\ ready
    /\ opLog.op # "none"

\* C27: when a start request returned success and the calls it made have
\* run to their end, the requested channel is the current channel and its
\* pipeline is live.
C27_SuccessMeansStreaming ==
    (/\ result.of = "start"
     /\ result.success
     /\ exec = NoCall
     /\ stopQ = <<>>
     /\ cont = None
     /\ ev[1] \in {"started", "built"})
    => (/\ currentChannelEntry = result.channel
        /\ sessionPipe # {}
        /\ sessionPipe \subseteq LivePipes)

\* C28: a start request with an empty channel name, a name no record
\* carries, a record without tvg_id, or no voice channel returns
\* success = false and leaves the session, the voice connection and the
\* database as they were.
C28_InvalidStartChangesNothing ==
    [][(/\ result' # result
        /\ result'.of = "start"
        /\ \E name \in RequestNames, vc \in VoiceTargets :
              Invalid(name, vc) # "" /\ result'.message = Invalid(name, vc)) =>
          /\ ~result'.success
          /\ UNCHANGED <<sessionState, channels, programmes, exec>>]_<<vars, execVars, resultVars>>

\* a request without a voice channel is rejected while channel A is streamed
C28_Witness ==
    /\ ev[1] = "invalid"
    /\ result.message = "You need to be in a voice channel to use this command."
    /\ Streaming
    /\ currentChannelEntry = "A"

\* C25: whenever a session is streaming (a channel is current, its pipeline
\* is live and played, no stop for it has begun), the interval timer of the
\* spectator monitor is armed and is the one the session holds.
C25_StreamingHasMonitor ==
    Streaming => (streamSpectatorMonitor # NoTimer /\ streamSpectatorMonitor \in timers)

\* C26: when the command layer and the monitor have requested no stop or
\* leave and no stop is waiting or resuming, every live pipeline is the
\* session: the current channel is its channel and the cancellation handle
\* of the session is the one it was started with.
C26_SupersededNeverAlters ==
    (nCmds = 0 /\ fired = 0 /\ stopQ = <<>> /\ cont = None) =>
        \A p \in LivePipes :
            /\ currentChannelEntry = pipes[p].ch
            /\ abortController = p

\* C29: after a tick of the scheduler that came to parse a guide with
\* channels and a playlist, the stored channels are the guide's channels
\* merged with the playlist, as after refresh("all"): every stored channel
\* whose id occurs in the playlist carries the stream url of the playlist.
C29_TickMergesLikeRefreshAll ==
    opLog.op = "tick" =>
        \A g \in Guides, pl \in PlaylistFeed :
            ( /\ opLog.guide = <<g>>
              /\ g.channels # <<>>
              /\ opLog.playlist = <<pl>> )
            => /\ channels = Synchronized(g.channels, pl)
               /\ \A i \in DOMAIN channels, j \in DOMAIN pl :
                     (pl[j].tvg_id # "" /\ channels[i].tvg_id = pl[j].tvg_id)
                     => channels[i].url = pl[j].url

\* C30: a read of a record set that returns while a refresh replaces that
\* set, a non-empty set by another non-empty set, returns the old set or the
\* new set, never an empty one.
C30_ReadsOldOrNew ==
    lastRead.during =>
        /\ lastRead.rows # <<>>
        /\ lastRead.rows \in {lastRead.old, lastRead.new}

\* C31: a refresh of the channels that runs again against the playlist of
\* the run before it leaves the stored channel records as they are: the
\* same records, the same number of records.
C31_SyncIsIdempotent ==
    [][(playlistChannels # <<>> /\ playlistChannels' = playlistChannels
        /\ channelsBefore' = channels)
       => channels' = channels]_mergeVars

ExampleLine ==
    [head |-> "#EXTINF:", attrs |-> <<Attr("tvg-id", "id1"), Attr("tvg-name", "Name")>>,
     comma |-> TRUE, title |-> "Name"]

\* C35: the record of a line is that of the strict strategy when it accepts
\* the line, else that of the order-independent one when it accepts, else
\* that of the lenient one; the line with tvg-id="id1" tvg-name="Name"
\* followed by http://x/y gives the record id1, Name, http://x/y.
C35_StrategiesInOrder ==
    /\ (parsePc = "next" /\ line.head = "#EXTINF:") =>
          /\ parseOriginalFormat(line) # <<>> => currentChannel = parseOriginalFormat(line)
          /\ (parseOriginalFormat(line) = <<>> /\ parseAlternativeFormat(line) # <<>>)
                => currentChannel = parseAlternativeFormat(line)
          /\ (parseOriginalFormat(line) = <<>> /\ parseAlternativeFormat(line) = <<>>)
                => currentChannel = parseFlexibleFormat(line)
    /\ (parsePc = "done" /\ line = ExampleLine /\ extracted # <<>>) =>
          /\ extracted[1].tvg_id = "id1"
          /\ extracted[1].tvg_name = "Name"
          /\ extracted[1].url = "http://x/y"

\* the example line and its url have been read and a record was pushed
C35_Witness ==
    /\ parsePc = "done"
    /\ line = ExampleLine
    /\ extracted # <<>>

\* C36: every record the parser accepts has an id or a name that is not empty.
C36_AcceptedHasIdOrName ==
    \A i \in DOMAIN currentChannel :
        currentChannel[i].tvg_id # "" \/ currentChannel[i].tvg_name # ""

\* C37: on every line fromPlaylistLine returns what the strict strategy
\* returns, else what the order-independent one returns: a line both
\* reject is rejected by the lenient strategy too.
C37_LenientNeverContributes ==
    (parsePc = "next" /\ line.head = "#EXTINF:") =>
        /\ currentChannel = OrElse(parseOriginalFormat(line), parseAlternativeFormat(line))
        /\ (parseOriginalFormat(line) = <<>> /\ parseAlternativeFormat(line) = <<>>)
              => parseFlexibleFormat(line) = <<>>

\* a line that all three strategies reject has been read
C37_Witness ==
    /\ parsePc = "next"
    /\ line.head = "#EXTINF:"
    /\ parseOriginalFormat(line) = <<>>
    /\ parseAlternativeFormat(line) = <<>>
    /\ currentChannel = <<>>

\* the fields the fourteen characters of a timestamp spell
WallClock(cs) ==
    [year |-> ParseDigits(Slice(cs, 0, 4), 1, 0), month |-> ParseDigits(Slice(cs, 4, 6), 1, 0),
     day |-> ParseDigits(Slice(cs, 6, 8), 1, 0), hour |-> ParseDigits(Slice(cs, 8, 10), 1, 0),
     minute |-> ParseDigits(Slice(cs, 10, 12), 1, 0),
     second |-> ParseDigits(Slice(cs, 12, 14), 1, 0)]

\* the seconds an offset +HHMM / -HHMM stands for, with its sign
SignedOffset(o) ==
    IF o = <<>> THEN 0
    ELSE (IF o[1] = "-" THEN -1 ELSE 1)
         * (ParseDigits(Slice(o, 1, 3), 1, 0) * 3600 + ParseDigits(Slice(o, 3, 5), 1, 0) * 60)

ExampleDate ==
    [ts |-> <<"2","0","2","4","0","1","0","1","1","2","0","0","0","0">>,
     off |-> <<"+","0","2","0","0">>]

\* C40: for YYYYMMDDHHMMSS with an optional offset, parseDate returns the
\* instant whose UTC fields, moved by the signed offset, are the wall-clock
\* time of the string: without offset the fields are those of the string,
\* a plus offset gives an earlier instant, a minus offset a later one, and
\* 20240101120000 +0200 is 2024-01-01T10:00:00Z.
C40_ParseDateAppliesOffset ==
    (guidePc # "date" /\ dateString \in DateStrings) =>
        /\ parsed.kind = "date"
        /\ toISOString(parsed.time + SignedOffset(dateString.off)) = WallClock(dateString.ts)
        /\ dateString = ExampleDate =>
              toISOString(parsed.time)
                  = [year |-> 2024, month |-> 1, day |-> 1, hour |-> 10, minute |-> 0,
                     second |-> 0]

\* a date just after midnight with a plus offset was parsed to an instant
\* of the day before
C40_Witness ==
    /\ guidePc = "parsed"
    /\ dateString.off = <<"+","0","2","0","0">>
    /\ WallClock(dateString.ts).day = 1
    /\ WallClock(dateString.ts).month = 1
    /\ parsed.kind = "date"
    /\ toISOString(parsed.time).year = 2023
    /\ toISOString(parsed.time).day = 31

\* a channel element is well-formed when it carries an id
WellFormedChannel(c) == c.attrs /\ c.id # Undefined

\* a programme element is well-formed when its start and its stop are
\* there and are dates
WellFormedProgramme(p) ==
    /\ p.attrs
    /\ p.start # NoDateAttr /\ p.stop # NoDateAttr
    /\ parseDate(p.start).kind = "date" /\ parseDate(p.stop).kind = "date"

\* C38: of the n channel and programme elements of a guide, k of them
\* malformed, the parser returns the n - k well-formed ones in document
\* order.
C38_MalformedSkipped ==
    guidePc = "extracted" =>
        LET cs == SelectSeq(doc.channel, WellFormedChannel)
            ps == SelectSeq(doc.programme, WellFormedProgramme)
        IN  /\ Len(output.channels) = Len(cs)
            /\ \A i \in 1..Len(cs) : output.channels[i].tvg_id = cs[i].id
            /\ Len(output.programmes) = Len(ps)
            /\ \A i \in 1..Len(ps) :
                  /\ output.programmes[i].start_timestamp = parseDate(ps[i].start).time
                  /\ output.programmes[i].stop_timestamp = parseDate(ps[i].stop).time

\* C39: every programme record the parser emits and a refresh persists
\* has start <= stop; start = stop is accepted.
C39_StartNotAfterStop ==
    /\ \A i \in 1..Len(output.programmes) :
          output.programmes[i].start_timestamp <= output.programmes[i].stop_timestamp
    /\ guidePc = "stored" =>
          \A i \in 1..Len(programmes) :
              programmes[i].start_timestamp <= programmes[i].stop_timestamp

\* C32: after a refresh no two persisted channel records share the same
\* non-empty channel id.
C32_ChannelIdsUnique ==
    guidePc = "stored" =>
        \A i, j \in 1..Len(channels) :
            (i # j /\ channels[i].tvg_id \notin {"", Undefined})
                => channels[i].tvg_id # channels[j].tvg_id

\* the channel records the import of a guide leaves
AfterGuide(before, g) ==
    IF g # <<>> /\ g[1].channels # <<>> THEN g[1].channels ELSE before

\* the channel records the merge of a playlist leaves
AfterPlaylist(before, pl) ==
    IF pl # <<>> THEN Synchronized(before, pl[1]) ELSE before

\* C33: when the download of a source of a refresh fails on every attempt
\* and nothing is cached, the persisted records of that source are what
\* they were before the refresh: a failed guide leaves the programmes
\* alone and the channels as the playlist of that refresh alone makes
\* them; a failed playlist leaves the channels as the guide of that
\* refresh alone makes them.
C33_FailedFetchLeavesRecords ==
    /\ "xmltv" \in opLog.failed =>
          /\ opLog.guide = <<>>
          /\ programmes = opLog.programmesThen
          /\ channels = AfterPlaylist(opLog.channelsThen, opLog.playlist)
    /\ "playlist" \in opLog.failed =>
          /\ opLog.playlist = <<>>
          /\ channels = AfterGuide(opLog.channelsThen, opLog.guide)

\* a forced refresh of the guide failed to download it with programmes
\* and channels in the database
C33_Witness ==
    /\ opLog.op = "programme"
    /\ "xmltv" \in opLog.failed
    /\ opLog.programmesThen # <<>>
    /\ opLog.channelsThen # <<>>
    /\ programmes = opLog.programmesThen
    /\ channels = opLog.channelsThen

\* C34: a refresh request whose forced download of a source failed on
\* every attempt with nothing cached returns success = false.
C34_FailedFetchReported ==
    ( /\ result.of = "refresh"
      /\ opLog.op \in {"all", "channels", "programme"}
      /\ opLog.forced
      /\ opLog.failed # {} )
        => ~result.success

====
